---- MODULE Spec2Model ----
(***************************************************************************)
(* Membership-management REST API (cms-backend): the document store, the   *)
(* domain services (member, event, zone) and the controllers above them,   *)
(* as state machines.  One specification per group of operations:          *)
(*   SpecEvent   - event CRUD, registration and attendance                 *)
(*   SpecRenew   - membership renewal over a range of stored dates         *)
(*   SpecMember  - member life cycle, the expiry sweep and the clock       *)
(*   SpecReads   - soft delete against every member read                   *)
(*   SpecCreate  - interleaved createMember requests                       *)
(*   SpecZone    - zone create / update / delete and member moves          *)
(*   SpecAuth    - registration and login behind the error handler         *)
(*   SpecHttp    - routing, middleware chains and controllers              *)
(*   SpecRegister- interleaved registerMemberForEvent requests             *)
(*   SpecStop    - interleaved renewals and a process that can stop        *)
(*   SpecIds     - every creation of a member or payment, interleaved      *)
(*   SpecNotify  - notification creation                                   *)
(*   SpecPage    - paginated listings                                      *)
(*   SpecRenewals- interleaved renewals of a process that keeps running    *)
(*   SpecMove    - deleteZone, updateMember and createMember, interleaved  *)
(*   SpecProcess - the process: start-up, connections, fault handlers      *)
(*                 (SpecProcessLive adds the fairness of the event loop)   *)
(***************************************************************************)
EXTENDS Integers, Sequences, FiniteSets, TLC

VARIABLES
  users,      \* User collection:    id -> document
  zones,      \* Zone collection:    id -> document
  members,    \* Member collection:  id -> document
  events,     \* Event collection:   id -> document
  payments,   \* Payment collection: sequence of documents, in insertion order
  now,        \* wall clock, as a day number (days since 1970-01-01)
  notifications, \* Notification collection: sequence of documents
  storage,    \* object storage: the paths of the files it holds
  process,    \* the node process: its HTTP server, connections and exit
  reqs,       \* requests in flight: request id -> position and locals
  last        \* the last finished request: operation and response

vars == <<users, zones, members, events, payments, now, notifications,
          storage, process, reqs, last>>

-----------------------------------------------------------------------------
(* Identifiers.  A request carries an ObjectId as a 24-character hex       *)
(* string; the validators accept both letter cases ([0-9a-fA-F]{24}),      *)
(* mongoose casts either spelling to the same ObjectId, and                *)
(* ObjectId.toString() always renders lowercase.  A request id is the      *)
(* ObjectId it denotes plus whether it is spelled in that canonical form.  *)

UserIds   == {"u1", "u2", "u3"}
ZoneIds   == {"z1", "z2"}
MemberIds == {"m1", "m2"}
EventIds  == {"e1"}

\* an id that passes the format check and denotes no stored document
NoSuchId == "none"

ReqIdsOf(S) ==
  [id : S, canon : BOOLEAN] \cup {[id |-> NoSuchId, canon |-> TRUE]}

\* the same, in canonical spelling only (where the id is only ever cast)
CanonIdsOf(S) == [id : S \cup {NoSuchId}, canon : {TRUE}]

CastObjectId(s) == s.id

ObjectIdToString(oid) == [id |-> oid, canon |-> TRUE]

-----------------------------------------------------------------------------
(* Date: a time value, here at day granularity.  getMonth / setMonth work  *)
(* on the calendar fields and convert back through MakeDay, as ECMAScript  *)
(* defines them.                                                           *)

Years == 2024..2036

IsLeap(y) == (y % 4 = 0) /\ ((y % 100 # 0) \/ (y % 400 = 0))

DaysInYear(y) == IF IsLeap(y) THEN 366 ELSE 365

DayFromYear(y) ==
  365 * (y - 1970) + ((y - 1969) \div 4) - ((y - 1901) \div 100)
    + ((y - 1601) \div 400)

YearFromDay(t) ==
  CHOOSE y \in Years : DayFromYear(y) <= t /\ t < DayFromYear(y) + DaysInYear(y)

DaysInMonth(y, m) ==
  IF m = 1 THEN (IF IsLeap(y) THEN 29 ELSE 28)
  ELSE IF m \in {3, 5, 8, 10} THEN 30 ELSE 31

RECURSIVE MonthStart(_, _)
\* day within the year on which month m (0 = January) starts
MonthStart(y, m) ==
  IF m = 0 THEN 0 ELSE MonthStart(y, m - 1) + DaysInMonth(y, m - 1)

DayWithinYear(t) == t - DayFromYear(YearFromDay(t))

MonthFromDay(t) ==
  LET y == YearFromDay(t)
      dwy == t - DayFromYear(y)
  IN  CHOOSE m \in 0..11 :
        MonthStart(y, m) <= dwy /\ dwy < MonthStart(y, m) + DaysInMonth(y, m)

DateFromDay(t) ==
  LET y == YearFromDay(t)
  IN  t - DayFromYear(y) - MonthStart(y, MonthFromDay(t)) + 1

\* ECMAScript MakeDay: month may exceed 11, date may exceed the month
MakeDay(year, month, date) ==
  LET ym == year + (month \div 12)
      mn == month % 12
  IN  DayFromYear(ym) + MonthStart(ym, mn) + date - 1

\* Date.prototype.setMonth(month): keeps year and day of month
SetMonth(t, month) == MakeDay(YearFromDay(t), month, DateFromDay(t))

Civil(t) ==
  LET y == YearFromDay(t)
      m == MonthFromDay(t)
  IN  [y |-> y, m |-> m, d |-> t - DayFromYear(y) - MonthStart(y, m) + 1]

-----------------------------------------------------------------------------
(* Documents.  Every collection maps each id to a document; exists = FALSE *)
(* is a slot nothing was inserted into.                                    *)

MemberStatuses == {"Active", "Inactive", "Suspended", "Expired"}
EventStatuses  == {"Upcoming", "Ongoing", "Completed", "Cancelled"}
AttendanceStatuses == {"Registered", "Attended", "No Show"}

\* maxAttendees is optional; an event without it has no cap
NoCap == 0

NoUser == [exists |-> FALSE, role |-> "Member", isActive |-> FALSE]

NoZone ==
  [exists |-> FALSE, name |-> [key |-> "", upper |-> FALSE],
   isActive |-> FALSE]

NoMember ==
  [exists |-> FALSE, user |-> NoSuchId, memberId |-> "", zone |-> NoSuchId,
   status |-> "Active", renewalDate |-> 0, qrCode |-> FALSE,
   isActive |-> FALSE]

NoEvent ==
  [exists |-> FALSE, isActive |-> FALSE, status |-> "Upcoming",
   maxAttendees |-> NoCap, registrationFee |-> 0, attendees |-> <<>>]

\* Model.findById: the document, or the empty slot when none has the id
FindById(coll, empty, reqId) ==
  IF CastObjectId(reqId) \in DOMAIN coll THEN coll[CastObjectId(reqId)]
  ELSE empty

\* a response without a payload worth recording
NoData == [none |-> TRUE]

\* the response of a finished request: the operation, whether it succeeded,
\* the error message when it did not, and the payload
Response(op, ok, error, data) ==
  [op |-> op, ok |-> ok, error |-> error, data |-> data]

NoResponse == Response("none", TRUE, "", NoData)

-----------------------------------------------------------------------------
(* The process (index.js): the start-up, the HTTP server and its            *)
(* connections, and the two process-level fault handlers.                   *)

\* the connections a server may hold at once
ConnIds == {"c1", "c2", "c3", "c4"}

\* the faults one run of the process logs at most
MaxFaults == 2

\* server: "none" before app.listen has returned, then "listening", and
\* "closing" from server.close() on.  A connection is "none" (not open),
\* "active" (a request on it is being served) or "idle" (kept alive between
\* requests).  logged counts the calls of logger.error.
Serving ==
  [server |-> "listening", connections |-> [c \in ConnIds |-> "none"],
   logged |-> 0, exited |-> FALSE, code |-> 0]

Starting == [Serving EXCEPT !.server = "none"]

\* process.exit(code): the process is gone, and its sockets with it
Exit(proc, code) ==
  [proc EXCEPT !.exited = TRUE, !.code = code,
               !.connections = [c \in ConnIds |-> "none"]]

processFrame ==
  <<users, zones, members, events, payments, now, notifications, storage,
    reqs, last>>

\* await connectDatabase(); server = app.listen(PORT, ...), or the catch
start(connected) ==
  /\ ~process.exited
  /\ process.server = "none"
  /\ process' = IF connected THEN [process EXCEPT !.server = "listening"]
                ELSE Exit([process EXCEPT !.logged = @ + 1], 1)
  /\ UNCHANGED processFrame

\* a client connects and sends a request
open(c) ==
  /\ ~process.exited
  /\ process.server = "listening"
  /\ process.connections[c] = "none"
  /\ process' = [process EXCEPT !.connections[c] = "active"]
  /\ UNCHANGED processFrame

\* the response of the request on a connection is finished; the connection
\* is kept alive
respond(c) ==
  /\ ~process.exited
  /\ process.connections[c] = "active"
  /\ process' = [process EXCEPT !.connections[c] = "idle"]
  /\ UNCHANGED processFrame

\* the client sends another request on a connection kept alive
nextRequest(c) ==
  /\ ~process.exited
  /\ process.server = "listening"
  /\ process.connections[c] = "idle"
  /\ process' = [process EXCEPT !.connections[c] = "active"]
  /\ UNCHANGED processFrame

\* the client closes a connection
end(c) ==
  /\ ~process.exited
  /\ process.connections[c] # "none"
  /\ process' = [process EXCEPT !.connections[c] = "none"]
  /\ UNCHANGED processFrame

\* server.keepAliveTimeout: the server closes a connection that stays idle
keepAliveTimeout(c) ==
  /\ ~process.exited
  /\ process.connections[c] = "idle"
  /\ process' = [process EXCEPT !.connections[c] = "none"]
  /\ UNCHANGED processFrame

\* process.on("unhandledRejection"): log, then server.close(() =>
\* process.exit(1)) when the server exists, process.exit(1) when not.
\* server.close() stops listening; closeIdle tells whether it also closes
\* the idle connections (it does from Node 19 on).
unhandledRejection(closeIdle) ==
  /\ ~process.exited
  /\ process.logged < MaxFaults
  /\ process' =
       IF process.server = "none"
       THEN Exit([process EXCEPT !.logged = @ + 1], 1)
       ELSE [process EXCEPT
               !.logged = @ + 1,
               !.server = "closing",
               !.connections =
                 [c \in ConnIds |->
                    IF closeIdle /\ process.connections[c] = "idle"
                    THEN "none" ELSE process.connections[c]]]
  /\ UNCHANGED processFrame

\* process.on("uncaughtException"): log, process.exit(1)
uncaughtException ==
  /\ ~process.exited
  /\ process.logged < MaxFaults
  /\ process' = Exit([process EXCEPT !.logged = @ + 1], 1)
  /\ UNCHANGED processFrame

\* the callback of server.close(): it runs when the server has stopped
\* listening and its last connection has ended
closed ==
  /\ ~process.exited
  /\ process.server = "closing"
  /\ \A c \in ConnIds : process.connections[c] = "none"
  /\ process' = Exit(process, 1)
  /\ UNCHANGED processFrame

-----------------------------------------------------------------------------
(* Bounds of the model.                                                    *)

\* attendee lists are not extended beyond this length
MaxAttendeesLen == 2

\* largest maxAttendees a request asks for
MaxCap == 1

-----------------------------------------------------------------------------
(* Event service.                                                          *)

Caps == 1..MaxCap

Fees == {0, 10}

AbsentFee == 0 - 1

\* updateEventSchema: every field optional; "absent" / NoCap / AbsentFee
\* stand for a field the body does not carry
UpdateEventBodies ==
  [status : EventStatuses \cup {"absent"},
   maxAttendees : Caps \cup {NoCap},
   registrationFee : {AbsentFee}]

\* Object.assign(event, updateData)
AssignEvent(event, updateData) ==
  [event EXCEPT
     !.status = IF updateData.status = "absent" THEN @ ELSE updateData.status,
     !.maxAttendees =
        IF updateData.maxAttendees = NoCap THEN @ ELSE updateData.maxAttendees,
     !.registrationFee =
        IF updateData.registrationFee = AbsentFee THEN @
        ELSE updateData.registrationFee]

\* event.attendees.find(a => a.member.toString() === memberId)
HasAttendee(event, memberId) ==
  \E i \in DOMAIN event.attendees :
    ObjectIdToString(event.attendees[i].member) = memberId

\* event.attendees.findIndex(a => a.member.toString() === memberId); 0 = -1
AttendeeIndex(event, memberId) ==
  IF HasAttendee(event, memberId)
  THEN CHOOSE i \in DOMAIN event.attendees :
         /\ ObjectIdToString(event.attendees[i].member) = memberId
         /\ \A j \in 1..(i - 1) :
              ObjectIdToString(event.attendees[j].member) # memberId
  ELSE 0

\* event.maxAttendees && event.attendees.length >= event.maxAttendees
AtCapacity(event) ==
  event.maxAttendees # NoCap /\ Len(event.attendees) >= event.maxAttendees

\* the checks of registerMemberForEvent, in the order of the code
RegisterError(event, member, memberId) ==
  IF ~event.exists \/ ~event.isActive THEN "Event not found"
  ELSE IF ~member.exists \/ ~member.isActive THEN "Member not found"
  ELSE IF event.status # "Upcoming"
    THEN "Event is not accepting registrations"
  ELSE IF HasAttendee(event, memberId)
    THEN "Member is already registered for this event"
  ELSE IF AtCapacity(event) THEN "Event is at maximum capacity"
  ELSE ""

\* the subdocument registerMemberForEvent pushes
NewAttendee(event, memberId) ==
  [member |-> CastObjectId(memberId),
   registrationDate |-> now,
   attendanceStatus |-> "Registered",
   paymentStatus |-> IF event.registrationFee > 0 THEN "Pending" ELSE "Paid"]

eventFrame ==
  <<users, zones, members, payments, now, notifications, storage, process, reqs>>

createEvent(e, maxAttendees, registrationFee) ==
  /\ ~events[e].exists
  /\ events' = [events EXCEPT ![e] =
       [exists |-> TRUE, isActive |-> TRUE, status |-> "Upcoming",
        maxAttendees |-> maxAttendees, registrationFee |-> registrationFee,
        attendees |-> <<>>]]
  /\ last' = Response("createEvent", TRUE, "", NoData)
  /\ UNCHANGED eventFrame

updateEvent(eventId, updateData) ==
  LET event == FindById(events, NoEvent, eventId)
  IN  /\ IF ~event.exists \/ ~event.isActive
         THEN /\ last' = Response("updateEvent", FALSE, "Event not found", NoData)
              /\ UNCHANGED events
         ELSE /\ events' = [events EXCEPT ![CastObjectId(eventId)] =
                              AssignEvent(event, updateData)]
              /\ last' = Response("updateEvent", TRUE, "", NoData)
      /\ UNCHANGED eventFrame

deleteEvent(eventId) ==
  LET event == FindById(events, NoEvent, eventId)
  IN  /\ IF ~event.exists
         THEN /\ last' = Response("deleteEvent", FALSE, "Event not found", NoData)
              /\ UNCHANGED events
         ELSE /\ events' = [events EXCEPT
                              ![CastObjectId(eventId)].isActive = FALSE]
              /\ last' = Response("deleteEvent", TRUE, "", NoData)
      /\ UNCHANGED eventFrame

registerMemberForEvent(eventId, memberId) ==
  LET event == FindById(events, NoEvent, eventId)
      member == FindById(members, NoMember, memberId)
      error == RegisterError(event, member, memberId)
  IN  /\ error = "" => Len(event.attendees) < MaxAttendeesLen
      /\ IF error # ""
         THEN /\ last' = Response("registerMemberForEvent", FALSE, error, NoData)
              /\ UNCHANGED events
         ELSE /\ events' = [events EXCEPT ![CastObjectId(eventId)].attendees =
                              Append(@, NewAttendee(event, memberId))]
              /\ last' = Response("registerMemberForEvent", TRUE, "", NoData)
      /\ UNCHANGED eventFrame

recordAttendance(eventId, memberId, attendanceStatus) ==
  LET event == FindById(events, NoEvent, eventId)
      attendeeIndex == AttendeeIndex(event, memberId)
  IN  /\ IF ~event.exists \/ ~event.isActive
         THEN /\ last' = Response("recordAttendance", FALSE,
                                  "Event not found", NoData)
              /\ UNCHANGED events
         ELSE IF attendeeIndex = 0
         THEN /\ last' = Response("recordAttendance", FALSE,
                           "Member is not registered for this event", NoData)
              /\ UNCHANGED events
         ELSE /\ events' = [events EXCEPT
                 ![CastObjectId(eventId)].attendees[attendeeIndex]
                    .attendanceStatus = attendanceStatus]
              /\ last' = Response("recordAttendance", TRUE, "", NoData)
      /\ UNCHANGED eventFrame

\* MemberService.disableMember, as the event operations see it
disableMemberDoc(member) ==
  [member EXCEPT !.isActive = FALSE, !.status = "Inactive"]

disableMember(memberId) ==
  LET member == FindById(members, NoMember, memberId)
  IN  /\ IF ~member.exists
         THEN /\ last' = Response("disableMember", FALSE,
                                  "Member not found", NoData)
              /\ UNCHANGED members
         ELSE /\ members' = [members EXCEPT ![CastObjectId(memberId)] =
                               disableMemberDoc(member)]
              /\ last' = Response("disableMember", TRUE, "", NoData)
      /\ UNCHANGED <<users, zones, events, payments, now, notifications, storage, process, reqs>>

Day0 == DayFromYear(2024) + 14

\* a store holding the users, zones and members the event requests refer to
SomeMember(u, z, mid) ==
  [exists |-> TRUE, user |-> u, memberId |-> mid, zone |-> z,
   status |-> "Active", renewalDate |-> Day0 + 30, qrCode |-> TRUE,
   isActive |-> TRUE]

SomeUsers ==
  [u \in UserIds |->
     [exists |-> TRUE, role |-> IF u = "u3" THEN "Admin" ELSE "Member",
      isActive |-> TRUE]]

InitEvent ==
  /\ users = SomeUsers
  /\ zones = [z \in ZoneIds |->
                [exists |-> TRUE, name |-> [key |-> z, upper |-> FALSE],
                 isActive |-> TRUE]]
  /\ members = [m \in MemberIds |->
                  IF m = "m1" THEN SomeMember("u1", "z1", "MEM1")
                  ELSE SomeMember("u2", "z1", "MEM2")]
  /\ events = [e \in EventIds |-> NoEvent]
  /\ payments = <<>>
  /\ now = Day0
  /\ notifications = <<>>
  /\ storage = {}
  /\ process = Serving
  /\ reqs = <<>>
  /\ last = NoResponse

NextEvent ==
  \/ \E e \in EventIds, c \in Caps \cup {NoCap}, f \in Fees :
       createEvent(e, c, f)
  \/ \E e \in CanonIdsOf(EventIds), u \in UpdateEventBodies : updateEvent(e, u)
  \/ \E e \in CanonIdsOf(EventIds) : deleteEvent(e)
  \/ \E e \in CanonIdsOf(EventIds), m \in ReqIdsOf(MemberIds) :
       registerMemberForEvent(e, m)
  \/ \E e \in CanonIdsOf(EventIds), m \in ReqIdsOf(MemberIds),
        s \in AttendanceStatuses : recordAttendance(e, m, s)
  \/ \E m \in CanonIdsOf(MemberIds) : disableMember(m)

SpecEvent == InitEvent /\ [][NextEvent]_vars

-----------------------------------------------------------------------------
(* Member service: renewal.                                                *)

\* renewMembershipSchema: renewalPeriod is an integer in 1..60
MinRenewalPeriod == 1

MaxRenewalPeriod == 60

\* the periods requests ask for: both ends, and around whole years
RenewalPeriods == {MinRenewalPeriod, 2, 3, 12, 13, MaxRenewalPeriod}

Amounts == {0, 50}

RenewalBodies == [renewalPeriod : RenewalPeriods, paymentAmount : Amounts]

\* what generatePaymentId() can return
PaymentIdPool == {"PAY1", "PAY2"}

\* the store accepts no more payments than this
MaxPayments == 1

\* Payment.findOne({ paymentId })
PaymentIdUsed(paymentId) ==
  \E i \in DOMAIN payments : payments[i].paymentId = paymentId

\* the renewal date with the day clamped to the end of a shorter month
NewRenewalDateClamped(currentRenewalDate, renewalPeriod) ==
  LET c == Civil(currentRenewalDate)
      t == c.y * 12 + c.m + renewalPeriod
      dim == DaysInMonth(t \div 12, t % 12)
  IN  MakeDay(t \div 12, t % 12, IF c.d > dim THEN dim ELSE c.d)

\* new Date(currentRenewalDate).setMonth(getMonth() + renewalPeriod)
NewRenewalDate(currentRenewalDate, renewalPeriod) ==
  SetMonth(currentRenewalDate, MonthFromDay(currentRenewalDate) + renewalPeriod)

\* the Payment document renewMembership builds
RenewalPayment(paymentId, memberId, renewalData, processedBy) ==
  [paymentId |-> paymentId,
   member |-> CastObjectId(memberId),
   amount |-> renewalData.paymentAmount,
   paymentType |-> "Membership Fee",
   description |-> renewalData.renewalPeriod,
   status |-> "Completed",
   processedBy |-> processedBy,
   isActive |-> TRUE]

\* a renewal that advances the date and leaves the status as it was
RenewedMemberKeepsStatus(member, newRenewalDate) ==
  [member EXCEPT !.renewalDate = newRenewalDate]

\* member.renewalDate = newRenewalDate; member.status = "Active"
RenewedMember(member, newRenewalDate) ==
  [member EXCEPT !.renewalDate = newRenewalDate, !.status = "Active"]

renewMembership(memberId, renewalData, processedBy) ==
  LET member == FindById(members, NoMember, memberId)
      currentRenewalDate == member.renewalDate
      newRenewalDate ==
        NewRenewalDate(currentRenewalDate, renewalData.renewalPeriod)
  IN  /\ IF ~member.exists \/ ~member.isActive
         THEN /\ last' = Response("renewMembership", FALSE,
                                  "Member not found", NoData)
              /\ UNCHANGED <<members, payments>>
         ELSE /\ Len(payments) < MaxPayments
              /\ \E paymentId \in PaymentIdPool :
                   /\ ~PaymentIdUsed(paymentId)
                   /\ LET payment == RenewalPayment(paymentId, memberId,
                                                    renewalData, processedBy)
                      IN  /\ payments' = Append(payments, payment)
                          /\ members' =
                               [members EXCEPT ![CastObjectId(memberId)] =
                                  RenewedMember(member, newRenewalDate)]
                          /\ last' = Response("renewMembership", TRUE, "",
                               [member |-> CastObjectId(memberId),
                                payment |-> payment,
                                previousRenewalDate |-> currentRenewalDate,
                                newRenewalDate |-> newRenewalDate])
      /\ UNCHANGED <<users, zones, events, now, notifications, storage, process, reqs>>

\* stored renewal dates: this many consecutive days from 2024-01-01
DateSpan == 60

StoredDates == DayFromYear(2024)..(DayFromYear(2024) + DateSpan - 1)

Admins == {"u3"}

\* one enrolled member with any stored renewal date and status, and one
\* member that may have been disabled
InitRenew ==
  /\ users = SomeUsers
  /\ zones = [z \in ZoneIds |->
                [exists |-> TRUE, name |-> [key |-> z, upper |-> FALSE],
                 isActive |-> TRUE]]
  /\ \E d \in StoredDates, st \in MemberStatuses :
       members = [m \in MemberIds |->
          IF m = "m1"
          THEN [SomeMember("u1", "z1", "MEM1") EXCEPT
                  !.renewalDate = d, !.status = st]
          ELSE disableMemberDoc(SomeMember("u2", "z1", "MEM2"))]
  /\ events = [e \in EventIds |-> NoEvent]
  /\ payments = <<>>
  /\ now = Day0
  /\ notifications = <<>>
  /\ storage = {}
  /\ process = Serving
  /\ reqs = <<>>
  /\ last = NoResponse

NextRenew ==
  \E m \in CanonIdsOf(MemberIds), rd \in RenewalBodies, by \in Admins :
    renewMembership(m, rd, by)

SpecRenew == InitRenew /\ [][NextRenew]_vars

-----------------------------------------------------------------------------
(* Member service: update, the expiry sweep, the clock.                    *)

AbsentId == [id |-> "absent", canon |-> TRUE]

\* updateMemberSchema: every field optional
UpdateMemberBodies ==
  [zoneId : CanonIdsOf(ZoneIds) \cup {AbsentId},
   status : MemberStatuses \cup {"absent"}]

\* an update guard that looks for the document only
UpdateMemberErrorAnyDoc(member, zone, updateData) ==
  IF ~member.exists THEN "Member not found"
  ELSE IF updateData.zoneId # AbsentId /\ (~zone.exists \/ ~zone.isActive)
    THEN "Zone not found or inactive"
  ELSE ""

\* the checks of updateMember, in the order of the code
UpdateMemberError(member, zone, updateData) ==
  IF ~member.exists \/ ~member.isActive THEN "Member not found"
  ELSE IF updateData.zoneId # AbsentId /\ (~zone.exists \/ ~zone.isActive)
    THEN "Zone not found or inactive"
  ELSE ""

\* updateData.zone = updateData.zoneId; Object.assign(member, updateData)
AssignMember(member, updateData) ==
  [member EXCEPT
     !.zone = IF updateData.zoneId = AbsentId THEN @
              ELSE CastObjectId(updateData.zoneId),
     !.status = IF updateData.status = "absent" THEN @ ELSE updateData.status]

updateMember(memberId, updateData) ==
  LET member == FindById(members, NoMember, memberId)
      zone == FindById(zones, NoZone, updateData.zoneId)
      error == UpdateMemberError(member, zone, updateData)
  IN  /\ IF error # ""
         THEN /\ last' = Response("updateMember", FALSE, error, NoData)
              /\ UNCHANGED members
         ELSE /\ members' = [members EXCEPT ![CastObjectId(memberId)] =
                               AssignMember(member, updateData)]
              /\ last' = Response("updateMember", TRUE, "",
                                  [member |-> CastObjectId(memberId)])
      /\ UNCHANGED <<users, zones, events, payments, now, notifications, storage, process, reqs>>

\* MemberController.updateExpiredMembers calls
\* MemberService.updateExpiredMembers(); the class MemberService defines no
\* such method, so the call throws a TypeError, which the controller hands
\* to the error handler
updateExpiredMembers ==
  /\ last' = Response("updateExpiredMembers", FALSE,
                      "MemberService.updateExpiredMembers is not a function",
                      NoData)
  /\ UNCHANGED <<users, zones, members, events, payments, now, notifications, storage, process, reqs>>

\* MemberController.extendMembership: MemberService.extendMembership is
\* not defined either
extendMembership(memberId) ==
  /\ last' = Response("extendMembership", FALSE,
                      "MemberService.extendMembership is not a function",
                      NoData)
  /\ UNCHANGED <<users, zones, members, events, payments, now, notifications, storage, process, reqs>>

\* days the clock moves in one step
TickDays == 20

\* days after Day0 at which the clock stops
MaxClock == 40

\* time passes
Tick ==
  /\ now < Day0 + MaxClock
  /\ now' = now + TickDays
  /\ UNCHANGED <<users, zones, members, events, payments, notifications, storage, process,
               reqs, last>>

\* two enrolled members whose renewal dates lie ahead of the clock
InitMember ==
  /\ users = SomeUsers
  /\ zones = [z \in ZoneIds |->
                [exists |-> TRUE, name |-> [key |-> z, upper |-> FALSE],
                 isActive |-> TRUE]]
  /\ members = [m \in MemberIds |->
                  IF m = "m1" THEN SomeMember("u1", "z1", "MEM1")
                  ELSE SomeMember("u2", "z1", "MEM2")]
  /\ events = [e \in EventIds |-> NoEvent]
  /\ payments = <<>>
  /\ now = Day0
  /\ notifications = <<>>
  /\ storage = {}
  /\ process = Serving
  /\ reqs = <<>>
  /\ last = NoResponse

NextMember ==
  \/ \E m \in CanonIdsOf(MemberIds), st \in MemberStatuses \cup {"absent"} :
       updateMember(m, [zoneId |-> AbsentId, status |-> st])
  \/ \E m \in CanonIdsOf(MemberIds) : disableMember(m)
  \/ \E m \in CanonIdsOf(MemberIds), by \in Admins :
       renewMembership(m, [renewalPeriod |-> MinRenewalPeriod,
                           paymentAmount |-> 50], by)
  \/ \E m \in CanonIdsOf(MemberIds) : extendMembership(m)
  \/ updateExpiredMembers
  \/ Tick

SpecMember == InitMember /\ [][NextMember]_vars

-----------------------------------------------------------------------------
(* Reads of members.  A result is the set of the members it returns; the   *)
(* stores hold fewer members than one page (limit 10, 20 for a search).    *)

ActiveMembers == {m \in MemberIds : members[m].exists /\ members[m].isActive}

\* filters of getAllMembers: zone, status, and the members the search term
\* matches by name, memberId or phone
MemberFilters ==
  [zone : ZoneIds \cup {"absent"},
   status : {"Active", "Inactive", "absent"},
   search : SUBSET MemberIds]

getAllMembers(filters) ==
  LET found == {m \in ActiveMembers :
                  /\ filters.zone # "absent" => members[m].zone = filters.zone
                  /\ filters.status # "absent"
                       => members[m].status = filters.status
                  /\ m \in filters.search}
  IN  /\ last' = Response("getAllMembers", TRUE, "", [members |-> found])
      /\ UNCHANGED <<users, zones, members, events, payments, now, notifications, storage, process, reqs>>

getMemberById(memberId) ==
  LET member == FindById(members, NoMember, memberId)
  IN  /\ last' = IF ~member.exists \/ ~member.isActive
                 THEN Response("getMemberById", FALSE, "Member not found",
                               NoData)
                 ELSE Response("getMemberById", TRUE, "",
                               [members |-> {CastObjectId(memberId)}])
      /\ UNCHANGED <<users, zones, members, events, payments, now, notifications, storage, process, reqs>>

\* qrGenerated: whether QRCode.toDataURL succeeds when the code is missing
getMemberQRCode(memberId, qrGenerated) ==
  LET member == FindById(members, NoMember, memberId)
  IN  /\ IF ~member.exists \/ ~member.isActive
         THEN /\ last' = Response("getMemberQRCode", FALSE,
                                  "Member not found", NoData)
              /\ UNCHANGED members
         ELSE IF ~member.qrCode /\ ~qrGenerated
         THEN /\ last' = Response("getMemberQRCode", FALSE,
                                  "Failed to generate QR code", NoData)
              /\ UNCHANGED members
         ELSE /\ members' = [members EXCEPT
                               ![CastObjectId(memberId)].qrCode = TRUE]
              /\ last' = Response("getMemberQRCode", TRUE, "",
                                  [members |-> {CastObjectId(memberId)}])
      /\ UNCHANGED <<users, zones, events, payments, now, notifications, storage, process, reqs>>

\* matches: the members the search term matches
searchMembers(matches) ==
  /\ last' = Response("searchMembers", TRUE, "",
                      [members |-> ActiveMembers \cap matches])
  /\ UNCHANGED <<users, zones, members, events, payments, now, notifications, storage, process, reqs>>

getZoneMembers(zoneId, status) ==
  LET zone == FindById(zones, NoZone, zoneId)
      found == {m \in ActiveMembers :
                  /\ members[m].zone = CastObjectId(zoneId)
                  /\ status # "absent" => members[m].status = status}
  IN  /\ last' = IF ~zone.exists \/ ~zone.isActive
                 THEN Response("getZoneMembers", FALSE, "Zone not found",
                               NoData)
                 ELSE Response("getZoneMembers", TRUE, "",
                               [members |-> found])
      /\ UNCHANGED <<users, zones, members, events, payments, now, notifications, storage, process, reqs>>

\* GET /members/me: authenticate, authorize('Member'), then
\* Member.findOne({ user: req.user.id })
getMyProfile(userId) ==
  LET user == IF userId \in UserIds THEN users[userId] ELSE NoUser
      found == {m \in MemberIds :
                  members[m].exists /\ members[m].user = userId}
  IN  /\ last' =
           IF ~user.exists THEN
             Response("getMyProfile", FALSE, "Invalid token. User not found.",
                      NoData)
           ELSE IF ~user.isActive THEN
             Response("getMyProfile", FALSE, "Account is deactivated.", NoData)
           ELSE IF user.role # "Member" THEN
             Response("getMyProfile", FALSE,
                      "Access denied. Insufficient permissions.", NoData)
           ELSE IF found = {} THEN
             Response("getMyProfile", FALSE, "Member profile not found",
                      NoData)
           ELSE Response("getMyProfile", TRUE, "",
                         [members |-> {CHOOSE m \in found : TRUE}])
      /\ UNCHANGED <<users, zones, members, events, payments, now, notifications, storage, process, reqs>>

\* two enrolled members, the second one's QR code not yet generated
InitReads ==
  /\ users = SomeUsers
  /\ zones = [z \in ZoneIds |->
                [exists |-> TRUE, name |-> [key |-> z, upper |-> FALSE],
                 isActive |-> z = "z1"]]
  /\ members = [m \in MemberIds |->
                  IF m = "m1" THEN SomeMember("u1", "z1", "MEM1")
                  ELSE [SomeMember("u2", "z1", "MEM2")
                          EXCEPT !.qrCode = FALSE]]
  /\ events = [e \in EventIds |-> NoEvent]
  /\ payments = <<>>
  /\ now = Day0
  /\ notifications = <<>>
  /\ storage = {}
  /\ process = Serving
  /\ reqs = <<>>
  /\ last = NoResponse

NextReads ==
  \/ \E m \in CanonIdsOf(MemberIds) : disableMember(m)
  \/ \E filters \in MemberFilters : getAllMembers(filters)
  \/ \E m \in CanonIdsOf(MemberIds) : getMemberById(m)
  \/ \E m \in CanonIdsOf(MemberIds), qrGenerated \in BOOLEAN :
       getMemberQRCode(m, qrGenerated)
  \/ \E matches \in SUBSET MemberIds : searchMembers(matches)
  \/ \E z \in CanonIdsOf(ZoneIds), st \in {"Active", "Inactive", "absent"} :
       getZoneMembers(z, st)
  \/ \E u \in UserIds \cup {NoSuchId} : getMyProfile(u)

SpecReads == InitReads /\ [][NextReads]_vars

-----------------------------------------------------------------------------
(* Zone service.  A zone name is a word (key), its letter case (upper) and, *)
(* in a request body, whether white space surrounds it (pad): the body is  *)
(* validated by Joi, whose trimmed value the middleware drops.             *)

ZoneNameKeys == {"north", "south"}

RawZoneNames == [key : ZoneNameKeys, upper : BOOLEAN, pad : BOOLEAN]

AbsentName == [key |-> "absent", upper |-> FALSE, pad |-> FALSE]

\* zoneSchema.name, trim: true
TrimName(raw) == [key |-> raw.key, upper |-> raw.upper]

\* new RegExp(`^${name}$`, "i") against a stored name
NameRegExpMatches(raw, stored) == ~raw.pad /\ raw.key = stored.key

\* updateData.name !== zone.name
SameNameString(raw, stored) == ~raw.pad /\ TrimName(raw) = stored

\* Zone.findOne({ name: RegExp, _id: { $ne: self }, isActive: true })
ExistingZone(raw, self) ==
  \E z \in ZoneIds \ {self} :
    zones[z].exists /\ zones[z].isActive
      /\ NameRegExpMatches(raw, zones[z].name)

\* the unique index on zone.name: exact strings, every document
NameIndexConflict(name, self) ==
  \E z \in ZoneIds \ {self} : zones[z].exists /\ zones[z].name = name

FreeZoneIds == {z \in ZoneIds : ~zones[z].exists}

createZone(zoneData) ==
  /\ FreeZoneIds # {}
  /\ LET id == CHOOSE z \in FreeZoneIds : TRUE
         name == TrimName(zoneData.name)
     IN  IF ExistingZone(zoneData.name, NoSuchId)
         THEN /\ last' = Response("createZone", FALSE,
                                  "Zone with this name already exists", NoData)
              /\ UNCHANGED zones
         ELSE IF NameIndexConflict(name, NoSuchId)
         THEN /\ last' = Response("createZone", FALSE, "name already exists",
                                  NoData)
              /\ UNCHANGED zones
         ELSE /\ zones' = [zones EXCEPT ![id] =
                             [exists |-> TRUE, name |-> name,
                              isActive |-> TRUE]]
              /\ last' = Response("createZone", TRUE, "", [zone |-> id])
  /\ UNCHANGED <<users, members, events, payments, now, notifications, storage, process, reqs>>

updateZone(zoneId, updateData) ==
  LET id == CastObjectId(zoneId)
      zone == FindById(zones, NoZone, zoneId)
      raw == updateData.name
      name == IF raw = AbsentName THEN zone.name ELSE TrimName(raw)
  IN  /\ IF ~zone.exists \/ ~zone.isActive
         THEN /\ last' = Response("updateZone", FALSE, "Zone not found", NoData)
              /\ UNCHANGED zones
         ELSE IF /\ raw # AbsentName
                 /\ ~SameNameString(raw, zone.name)
                 /\ ExistingZone(raw, id)
         THEN /\ last' = Response("updateZone", FALSE,
                                  "Zone with this name already exists", NoData)
              /\ UNCHANGED zones
         ELSE IF name # zone.name /\ NameIndexConflict(name, id)
         THEN /\ last' = Response("updateZone", FALSE, "name already exists",
                                  NoData)
              /\ UNCHANGED zones
         ELSE /\ zones' = [zones EXCEPT ![id].name = name]
              /\ last' = Response("updateZone", TRUE, "", [zone |-> id])
      /\ UNCHANGED <<users, members, events, payments, now, notifications, storage, process, reqs>>

\* a count that takes every member of the zone, disabled ones included
MemberCountAnyState(id) ==
  Cardinality({m \in MemberIds : members[m].exists /\ members[m].zone = id})

\* Member.countDocuments({ zone: zoneId, isActive: true })
ActiveMemberCount(id) ==
  Cardinality({m \in MemberIds :
                 members[m].exists /\ members[m].zone = id
                   /\ members[m].isActive})

deleteZone(zoneId) ==
  LET id == CastObjectId(zoneId)
      zone == FindById(zones, NoZone, zoneId)
  IN  /\ IF ~zone.exists \/ ~zone.isActive
         THEN /\ last' = Response("deleteZone", FALSE, "Zone not found", NoData)
              /\ UNCHANGED zones
         ELSE IF ActiveMemberCount(id) > 0
         THEN /\ last' = Response("deleteZone", FALSE,
                "Cannot delete zone. It has " \o ToString(ActiveMemberCount(id))
                  \o " active member(s). Please reassign or remove members first.",
                NoData)
              /\ UNCHANGED zones
         ELSE /\ zones' = [zones EXCEPT ![id].isActive = FALSE]
              /\ last' = Response("deleteZone", TRUE, "", [zone |-> id])
      /\ UNCHANGED <<users, members, events, payments, now, notifications, storage, process, reqs>>

\* one zone with both members in it; the other zone is yet to be created
InitZone ==
  /\ users = SomeUsers
  /\ zones = [z \in ZoneIds |->
                IF z = "z1"
                THEN [exists |-> TRUE,
                      name |-> [key |-> "north", upper |-> FALSE],
                      isActive |-> TRUE]
                ELSE NoZone]
  /\ members = [m \in MemberIds |->
                  IF m = "m1" THEN SomeMember("u1", "z1", "MEM1")
                  ELSE SomeMember("u2", "z1", "MEM2")]
  /\ events = [e \in EventIds |-> NoEvent]
  /\ payments = <<>>
  /\ now = Day0
  /\ notifications = <<>>
  /\ storage = {}
  /\ process = Serving
  /\ reqs = <<>>
  /\ last = NoResponse

NextZone ==
  \/ \E name \in RawZoneNames : createZone([name |-> name])
  \/ \E z \in CanonIdsOf(ZoneIds), name \in RawZoneNames \cup {AbsentName} :
       updateZone(z, [name |-> name])
  \/ \E z \in CanonIdsOf(ZoneIds) : deleteZone(z)
  \/ \E m \in CanonIdsOf(MemberIds) : disableMember(m)
  \/ \E m \in CanonIdsOf(MemberIds), z \in CanonIdsOf(ZoneIds) :
       updateMember(m, [zoneId |-> z, status |-> "absent"])

SpecZone == InitZone /\ [][NextZone]_vars

-----------------------------------------------------------------------------
(* createMember, one step per await, so that requests interleave.          *)

ReqSlots == {"r1", "r2"}

MemberIdPool == {"MEM1", "MEM2"}

IdleReq ==
  [pc |-> "idle", userId |-> NoSuchId, zoneId |-> NoSuchId, memberId |-> "",
   doc |-> NoSuchId]

CreateMemberBodies ==
  [userId : CanonIdsOf(UserIds), zoneId : CanonIdsOf(ZoneIds)]

\* the request ends: its response is sent and its slot is free again
Finish(r, response) ==
  /\ reqs' = [reqs EXCEPT ![r] = IdleReq]
  /\ last' = response

\* await User.findById(memberData.userId), and the role check
createMemberFindUser(r, memberData) ==
  LET user == FindById(users, NoUser, memberData.userId)
  IN  /\ reqs[r].pc = "idle"
      /\ IF ~user.exists
         THEN Finish(r, Response("createMember", FALSE, "User not found",
                                 NoData))
         ELSE IF user.role # "Member"
         THEN Finish(r, Response("createMember", FALSE,
                "User must have Member role to create member profile", NoData))
         ELSE /\ reqs' = [reqs EXCEPT ![r] =
                            [IdleReq EXCEPT
                               !.pc = "findMember",
                               !.userId = CastObjectId(memberData.userId),
                               !.zoneId = CastObjectId(memberData.zoneId)]]
              /\ UNCHANGED last
      /\ UNCHANGED <<users, zones, members, events, payments, now, notifications, storage, process>>

\* await Member.findOne({ user: memberData.userId })
createMemberFindMember(r) ==
  /\ reqs[r].pc = "findMember"
  /\ IF \E m \in MemberIds :
          members[m].exists /\ members[m].user = reqs[r].userId
     THEN Finish(r, Response("createMember", FALSE,
                    "Member profile already exists for this user", NoData))
     ELSE /\ reqs' = [reqs EXCEPT ![r].pc = "findZone"]
          /\ UNCHANGED last
  /\ UNCHANGED <<users, zones, members, events, payments, now, notifications, storage, process>>

\* await Zone.findById(memberData.zoneId)
createMemberFindZone(r) ==
  LET zone == IF reqs[r].zoneId \in ZoneIds THEN zones[reqs[r].zoneId]
              ELSE NoZone
  IN  /\ reqs[r].pc = "findZone"
      /\ IF ~zone.exists \/ ~zone.isActive
         THEN Finish(r, Response("createMember", FALSE,
                                 "Zone not found or inactive", NoData))
         ELSE /\ reqs' = [reqs EXCEPT ![r].pc = "memberId"]
              /\ UNCHANGED last
      /\ UNCHANGED <<users, zones, members, events, payments, now, notifications, storage, process>>

\* the loop around generateMemberId(): it leaves with an identifier that
\* no member had when it was looked up
createMemberGenerateId(r, memberId) ==
  /\ reqs[r].pc = "memberId"
  /\ \A m \in MemberIds :
       members[m].exists => members[m].memberId # memberId
  /\ reqs' = [reqs EXCEPT ![r].pc = "save", ![r].memberId = memberId]
  /\ UNCHANGED <<users, zones, members, events, payments, now, notifications, storage, process, last>>

\* a store whose unique index on member.user is missing
MemberIndexConflictNoUser(user, memberId) ==
  IF \E m \in MemberIds : members[m].exists /\ members[m].memberId = memberId
  THEN "memberId already exists"
  ELSE ""

\* the unique indexes of memberSchema: user and memberId
MemberIndexConflict(user, memberId) ==
  IF \E m \in MemberIds : members[m].exists /\ members[m].user = user
  THEN "user already exists"
  ELSE IF \E m \in MemberIds :
            members[m].exists /\ members[m].memberId = memberId
  THEN "memberId already exists"
  ELSE ""

FreeMemberIds == {m \in MemberIds : ~members[m].exists}

\* new Member({...}); await member.save()
createMemberSave(r) ==
  LET error == MemberIndexConflict(reqs[r].userId, reqs[r].memberId)
  IN  /\ reqs[r].pc = "save"
      /\ IF error # ""
         THEN /\ Finish(r, Response("createMember", FALSE, error, NoData))
              /\ UNCHANGED members
         ELSE /\ FreeMemberIds # {}
              /\ LET id == CHOOSE m \in FreeMemberIds : TRUE
                 IN  /\ members' = [members EXCEPT ![id] =
                          [exists |-> TRUE, user |-> reqs[r].userId,
                           memberId |-> reqs[r].memberId,
                           zone |-> reqs[r].zoneId, status |-> "Active",
                           renewalDate |-> Day0 + 30, qrCode |-> FALSE,
                           isActive |-> TRUE]]
                     /\ reqs' = [reqs EXCEPT ![r].pc = "qr", ![r].doc = id]
              /\ UNCHANGED last
      /\ UNCHANGED <<users, zones, events, payments, now, notifications, storage, process>>

\* await qrService.generateMemberQR(...); member.qrCode = qrCode;
\* await member.save(); populate; return
createMemberQR(r, qrGenerated) ==
  /\ reqs[r].pc = "qr"
  /\ IF ~qrGenerated
     THEN /\ Finish(r, Response("createMember", FALSE,
                                "Failed to generate QR code", NoData))
          /\ UNCHANGED members
     ELSE /\ members' = [members EXCEPT ![reqs[r].doc].qrCode = TRUE]
          /\ Finish(r, Response("createMember", TRUE, "",
                                [member |-> reqs[r].doc]))
  /\ UNCHANGED <<users, zones, events, payments, now, notifications, storage, process>>

\* no member yet; the second zone has been deleted
InitCreate ==
  /\ users = SomeUsers
  /\ zones = [z \in ZoneIds |->
                [exists |-> TRUE, name |-> [key |-> z, upper |-> FALSE],
                 isActive |-> z = "z1"]]
  /\ members = [m \in MemberIds |-> NoMember]
  /\ events = [e \in EventIds |-> NoEvent]
  /\ payments = <<>>
  /\ now = Day0
  /\ notifications = <<>>
  /\ storage = {}
  /\ process = Serving
  /\ reqs = [r \in ReqSlots |-> IdleReq]
  /\ last = NoResponse

NextCreate ==
  \/ \E r \in ReqSlots, memberData \in CreateMemberBodies :
       createMemberFindUser(r, memberData)
  \/ \E r \in ReqSlots : createMemberFindMember(r)
  \/ \E r \in ReqSlots : createMemberFindZone(r)
  \/ \E r \in ReqSlots, memberId \in MemberIdPool :
       createMemberGenerateId(r, memberId)
  \/ \E r \in ReqSlots : createMemberSave(r)
  \/ \E r \in ReqSlots, qrGenerated \in BOOLEAN : createMemberQR(r, qrGenerated)

SpecCreate == InitCreate /\ [][NextCreate]_vars

-----------------------------------------------------------------------------
(* The error handler, and the authentication service behind its            *)
(* controller.  A response of this layer carries its HTTP status in data.  *)

OK == 200
CREATED == 201
BAD_REQUEST == 400
UNAUTHORIZED == 401
FORBIDDEN == 403
NOT_FOUND == 404
CONFLICT == 409
INTERNAL_SERVER_ERROR == 500

\* no statusCode property on the error object
NoStatusCode == 0

\* new Error(message)
NewError(message) ==
  [name |-> "Error", code |-> 0, keyField |-> "", statusCode |-> NoStatusCode,
   message |-> message]

\* the error of a failed insert into a unique index (E11000)
DuplicateKeyError(field) ==
  [name |-> "MongoServerError", code |-> 11000, keyField |-> field,
   statusCode |-> NoStatusCode, message |-> "E11000 duplicate key error"]

\* errorHandler: error = { ...err }; each recognised shape, tested in turn,
\* replaces it (a later test overrides an earlier one); then
\* res.status(error.statusCode || 500).json(formatResponse(false, message)).
\* The message of a ValidationError stands for its joined field messages.
errorHandler(err) ==
  IF err.name = "TokenExpiredError"
    THEN [statusCode |-> UNAUTHORIZED, message |-> "Token expired"]
  ELSE IF err.name = "JsonWebTokenError"
    THEN [statusCode |-> UNAUTHORIZED, message |-> "Invalid token"]
  ELSE IF err.name = "ValidationError"
    THEN [statusCode |-> BAD_REQUEST, message |-> err.message]
  ELSE IF err.code = 11000
    THEN [statusCode |-> CONFLICT, message |-> err.keyField \o " already exists"]
  ELSE IF err.name = "CastError"
    THEN [statusCode |-> NOT_FOUND, message |-> "Resource not found"]
  ELSE [statusCode |-> IF err.statusCode # NoStatusCode THEN err.statusCode
                       ELSE INTERNAL_SERVER_ERROR,
        message |-> IF err.message # "" THEN err.message ELSE "Server Error"]

\* catch (error) { next(error) }: the response the error handler sends
ErrorResponse(op, err, data) ==
  Response(op, FALSE, errorHandler(err).message,
           [status |-> errorHandler(err).statusCode] @@ data)

\* an e-mail address: its letters (key) and whether it is typed in capitals
EmailKeys == {"ann@cms.org", "bob@cms.org", "eve@cms.org"}

Emails == [key : EmailKeys, upper : BOOLEAN]

\* userSchema.email, lowercase: true (on documents and on query filters)
LowercaseEmail(email) == [email EXCEPT !.upper = FALSE]

Passwords == {"Secret1", "Guess22"}

\* bcrypt.hash in the pre-save hook
HashPassword(password) == [bcrypt |-> password]

\* bcrypt.compare(candidatePassword, this.password)
comparePassword(user, candidatePassword) ==
  user.password = HashPassword(candidatePassword)

NoAuthUser ==
  [exists |-> FALSE, role |-> "Member", isActive |-> FALSE,
   email |-> [key |-> "", upper |-> FALSE], password |-> HashPassword("")]

\* User.findOne({ email })
UsersByEmail(email) ==
  {u \in UserIds : users[u].exists /\ users[u].email = LowercaseEmail(email)}

FreeUserIds == {u \in UserIds : ~users[u].exists}

\* AuthController.register over AuthService.register
register(userData) ==
  /\ IF UsersByEmail(userData.email) # {}
     THEN /\ last' = ErrorResponse("register",
                       NewError("User already exists with this email"),
                       [email |-> userData.email])
          /\ UNCHANGED users
     ELSE /\ FreeUserIds # {}
          /\ LET id == CHOOSE u \in FreeUserIds : TRUE
             IN  /\ users' = [users EXCEPT ![id] =
                      [exists |-> TRUE, role |-> userData.role,
                       isActive |-> TRUE,
                       email |-> LowercaseEmail(userData.email),
                       password |-> HashPassword(userData.password)]]
                 /\ last' = Response("register", TRUE, "",
                              [status |-> CREATED, email |-> userData.email,
                               user |-> id])
  /\ UNCHANGED <<zones, members, events, payments, now, notifications, storage, process, reqs>>

\* AuthController.login over AuthService.login
login(email, password) ==
  LET found == UsersByEmail(email)
      user == IF found = {} THEN NoAuthUser
              ELSE users[CHOOSE u \in found : TRUE]
      sent == [email |-> email, password |-> password]
  IN  /\ last' =
           IF ~user.exists
             THEN ErrorResponse("login", NewError("Invalid credentials"), sent)
           ELSE IF ~user.isActive
             THEN ErrorResponse("login", NewError("Account is deactivated"),
                                sent)
           ELSE IF ~comparePassword(user, password)
             THEN ErrorResponse("login", NewError("Invalid credentials"), sent)
           ELSE Response("login", TRUE, "", [status |-> OK] @@ sent)
      /\ UNCHANGED <<users, zones, members, events, payments, now, notifications, storage, process, reqs>>

\* one active account, one account that may have been deactivated, and
\* room for one registration
InitAuth ==
  /\ \E active \in BOOLEAN :
       users = [u \in UserIds |->
                  IF u = "u1"
                  THEN [exists |-> TRUE, role |-> "Admin", isActive |-> TRUE,
                        email |-> [key |-> "ann@cms.org", upper |-> FALSE],
                        password |-> HashPassword("Secret1")]
                  ELSE IF u = "u2"
                  THEN [exists |-> TRUE, role |-> "Member",
                        isActive |-> active,
                        email |-> [key |-> "bob@cms.org", upper |-> FALSE],
                        password |-> HashPassword("Secret1")]
                  ELSE NoAuthUser]
  /\ zones = [z \in ZoneIds |-> NoZone]
  /\ members = [m \in MemberIds |-> NoMember]
  /\ events = [e \in EventIds |-> NoEvent]
  /\ payments = <<>>
  /\ now = Day0
  /\ notifications = <<>>
  /\ storage = {}
  /\ process = Serving
  /\ reqs = <<>>
  /\ last = NoResponse

NextAuth ==
  \/ \E email \in Emails, password \in Passwords, role \in {"Admin", "Member"} :
       register([email |-> email, password |-> password, role |-> role])
  \/ \E email \in Emails, password \in Passwords : login(email, password)

SpecAuth == InitAuth /\ [][NextAuth]_vars

-----------------------------------------------------------------------------
(* The routers: a request is matched against the routes of its router in   *)
(* the order of registration, and the handlers of the first match run in   *)
(* turn until one of them answers.                                         *)

Handler(kind, roles, schema) == [kind |-> kind, roles |-> roles, schema |-> schema]

Authenticate == Handler("authenticate", {}, "")
Authorize(roles) == Handler("authorize", roles, "")
ValidateParams(schema) == Handler("validateParams", {}, schema)
ValidateBody(schema) == Handler("validate", {}, schema)
ValidateQuery(schema) == Handler("validateQuery", {}, schema)
UploadSingle == Handler("upload.single", {}, "")
ValidateFileContent == Handler("validateFileContent", {}, "")
Controller(name) == Handler("controller", {}, name)

Route(method, path, chain) == [method |-> method, path |-> path, chain |-> chain]

\* an authorize that lets every authenticated user through
authorizePassesAll(roles, role) == TRUE

\* authorize(...roles): roles.includes(req.user.role)
authorizePasses(roles, role) == role \in roles

\* the members router
MemberRoutes ==
  << Route("POST", <<>>,
       <<Authenticate, Authorize({"Admin"}), ValidateBody("createMemberSchema"),
         Controller("createMember")>>),
     Route("GET", <<>>,
       <<Authenticate, Authorize({"Admin"}),
         ValidateQuery("memberFilterSchema"), Controller("getAllMembers")>>),
     Route("GET", <<"search">>,
       <<Authenticate, Authorize({"Admin"}), Controller("searchMembers")>>),
     Route("GET", <<"me">>,
       <<Authenticate, Authorize({"Member"}), Controller("getMyProfile")>>),
     Route("GET", <<":id">>,
       <<Authenticate, Authorize({"Admin", "Member"}),
         ValidateParams("memberParamsSchema"), Controller("getMemberById")>>),
     Route("PUT", <<":id">>,
       <<Authenticate, Authorize({"Admin"}),
         ValidateParams("memberParamsSchema"),
         ValidateBody("updateMemberSchema"), Controller("updateMember")>>),
     Route("PATCH", <<":id", "disable">>,
       <<Authenticate, Authorize({"Admin"}),
         ValidateParams("memberParamsSchema"), Controller("disableMember")>>),
     Route("GET", <<":id", "qr-code">>,
       <<Authenticate, Authorize({"Admin", "Member"}),
         ValidateParams("memberParamsSchema"), Controller("getMemberQRCode")>>),
     Route("POST", <<":id", "renew">>,
       <<Authenticate, Authorize({"Admin"}),
         ValidateParams("memberParamsSchema"),
         ValidateBody("renewMembershipSchema"),
         Controller("renewMembership")>>),
     Route("GET", <<"expiring-soon">>,
       <<Authenticate, Authorize({"Admin"}),
         Controller("getExpiringMembers")>>),
     Route("PUT", <<":id", "extend">>,
       <<Authenticate, Authorize({"Admin"}),
         ValidateParams("memberParamsSchema"),
         Controller("extendMembership")>>) >>

\* the payments router
PaymentRoutes ==
  << Route("POST", <<>>,
       <<Authenticate, Authorize({"Admin"}),
         ValidateBody("createPaymentSchema"), Controller("createPayment")>>),
     Route("GET", <<>>,
       <<Authenticate, Authorize({"Admin"}),
         ValidateQuery("paymentFilterSchema"), Controller("getAllPayments")>>),
     Route("GET", <<":id">>,
       <<Authenticate, Authorize({"Admin", "Member"}),
         ValidateParams("paymentParamsSchema"), Controller("getPaymentById")>>),
     Route("PUT", <<":id">>,
       <<Authenticate, Authorize({"Admin"}),
         ValidateParams("paymentParamsSchema"),
         ValidateBody("updatePaymentSchema"), Controller("updatePayment")>>),
     Route("GET", <<"member", ":memberId">>,
       <<Authenticate, Authorize({"Admin", "Member"}),
         Controller("getPaymentsByMember")>>),
     Route("GET", <<"event", ":eventId">>,
       <<Authenticate, Authorize({"Admin"}), Controller("getEventPayments")>>),
     Route("POST", <<":id", "receipt">>,
       <<Authenticate, Authorize({"Admin"}),
         ValidateParams("paymentParamsSchema"), UploadSingle,
         ValidateFileContent, Controller("uploadReceipt")>>) >>

\* router.use("/members", memberRoutes); router.use("/payments", ...)
RoutesOf(router) == IF router = "members" THEN MemberRoutes ELSE PaymentRoutes

IsParam(segment) == segment \in {":id", ":memberId", ":eventId"}

\* a route path matches when every segment is the same word or a parameter
PathMatches(pattern, path) ==
  /\ Len(pattern) = Len(path)
  /\ \A i \in 1..Len(pattern) : IsParam(pattern[i]) \/ pattern[i] = path[i]

\* the first route, in the order of registration, with the request's
\* method and a matching path; 0 when the router has none
Dispatch(routes, req) ==
  LET hits == {i \in 1..Len(routes) :
                 routes[i].method = req.method
                   /\ PathMatches(routes[i].path, req.path)}
  IN  IF hits = {} THEN 0 ELSE CHOOSE i \in hits : \A j \in hits : i <= j

\* req.params.id of the matched route
ParamOf(route, req) ==
  LET at == {i \in 1..Len(route.path) : IsParam(route.path[i])}
  IN  IF at = {} THEN "" ELSE req.path[CHOOSE i \in at : TRUE]

PaymentObjectIds == {"p1", "p2"}

\* the strings that have the form of an ObjectId (/^[0-9a-fA-F]{24}$/)
ObjectIdStrings == MemberIds \cup PaymentObjectIds \cup {NoSuchId}

\* a path segment that is no ObjectId and no word of any route
MalformedId == "12xyz"

\* Authorization header: none, a token that jwt.verify refuses, or a
\* token signed for a user id
Tokens == {"absent", "bad"} \cup UserIds

Files == {"absent", "image", "text", "forged"}

Pass(user) == [pass |-> TRUE, status |-> OK, message |-> "", user |-> user]

Reject(status, message) ==
  [pass |-> FALSE, status |-> status, message |-> message, user |-> ""]

\* an authenticate that does not look at the isActive flag
authenticateAnyAccount(req) ==
  IF req.token = "absent"
    THEN Reject(UNAUTHORIZED, "Access denied. No token provided.")
  ELSE IF req.token = "bad"
    THEN Reject(UNAUTHORIZED, "Invalid or expired token.")
  ELSE IF req.token \notin UserIds \/ ~users[req.token].exists
    THEN Reject(UNAUTHORIZED, "Invalid token. User not found.")
  ELSE Pass(req.token)

\* authenticate: the user is read from the store on every request
authenticate(req) ==
  IF req.token = "absent"
    THEN Reject(UNAUTHORIZED, "Access denied. No token provided.")
  ELSE IF req.token = "bad"
    THEN Reject(UNAUTHORIZED, "Invalid or expired token.")
  ELSE IF req.token \notin UserIds \/ ~users[req.token].exists
    THEN Reject(UNAUTHORIZED, "Invalid token. User not found.")
  ELSE IF ~users[req.token].isActive
    THEN Reject(UNAUTHORIZED, "Account is deactivated.")
  ELSE Pass(req.token)

authorize(roles, user) ==
  IF user = "" THEN Reject(UNAUTHORIZED, "Authentication required.")
  ELSE IF ~authorizePasses(roles, users[user].role)
    THEN Reject(FORBIDDEN, "Access denied. Insufficient permissions.")
  ELSE Pass(user)

validateParams(schema, route, req, user) ==
  IF ParamOf(route, req) \notin ObjectIdStrings
    THEN Reject(BAD_REQUEST,
                IF schema = "memberParamsSchema" THEN "Invalid member ID format"
                ELSE "Invalid payment ID format")
  ELSE Pass(user)

\* validate / validateQuery: req.valid says whether the body or the query
\* satisfies the schema of the route
validate(req, user) ==
  IF ~req.valid THEN Reject(BAD_REQUEST, "validation failed") ELSE Pass(user)

\* multer's fileFilter hands its error to next(err), that is to errorHandler
uploadSingle(req, user) ==
  IF req.file = "text"
    THEN Reject(errorHandler(NewError(
                  "Only JPEG, PNG, and WebP images are allowed")).statusCode,
                "Only JPEG, PNG, and WebP images are allowed")
  ELSE Pass(user)

validateFileContent(req, user) ==
  IF req.file = "forged"
    THEN Reject(BAD_REQUEST, "File content does not match the declared type")
  ELSE Pass(user)

RunHandler(h, route, req, user) ==
  IF h.kind = "authenticate" THEN authenticate(req)
  ELSE IF h.kind = "authorize" THEN authorize(h.roles, user)
  ELSE IF h.kind = "validateParams"
    THEN validateParams(h.schema, route, req, user)
  ELSE IF h.kind \in {"validate", "validateQuery"} THEN validate(req, user)
  ELSE IF h.kind = "upload.single" THEN uploadSingle(req, user)
  ELSE IF h.kind = "validateFileContent" THEN validateFileContent(req, user)
  ELSE Pass(user)

\* the handlers of a route from position i on: those that ran, and the
\* answer of the one that rejected, or the controller that was reached
RECURSIVE RunChain(_, _, _, _, _)
RunChain(route, i, req, user, ran) ==
  LET h == route.chain[i]
      out == RunHandler(h, route, req, user)
      ranNow == Append(ran, h.kind)
  IN  IF h.kind = "controller"
        THEN [ran |-> ranNow, rejected |-> FALSE, status |-> OK,
              message |-> "", user |-> user, controller |-> h.schema]
      ELSE IF ~out.pass
        THEN [ran |-> ranNow, rejected |-> TRUE, status |-> out.status,
              message |-> out.message, user |-> "", controller |-> ""]
      ELSE RunChain(route, i + 1, req, out.user, ranNow)

\* what a controller leaves behind in the two collections it may write,
\* and the response it sends
Outcome(newMembers, newPayments, ok, status, message) ==
  [members |-> newMembers, payments |-> newPayments, ok |-> ok,
   status |-> status, message |-> message]

\* res.status(status).json(formatResponse(true, ...))
Sent(newMembers, newPayments, status) ==
  Outcome(newMembers, newPayments, TRUE, status, "")

\* catch (error) { next(error) }
Thrown(err) ==
  Outcome(members, payments, FALSE, errorHandler(err).statusCode,
          errorHandler(err).message)

\* a call of a method that the service object does not have
NotAFunction(method) ==
  [name |-> "TypeError", code |-> 0, keyField |-> "",
   statusCode |-> NoStatusCode, message |-> method \o " is not a function"]

\* the error of Model.findById(id) for an id that casts to no ObjectId
CastError ==
  [name |-> "CastError", code |-> 0, keyField |-> "",
   statusCode |-> NoStatusCode, message |-> "Cast to ObjectId failed"]

\* the error PaymentService.uploadReceipt throws: error.statusCode = 404
PaymentNotFound == [NewError("Payment not found") EXCEPT !.statusCode = NOT_FOUND]

PaymentIndex(id) == IF id = "p1" THEN 1 ELSE 2

\* Payment.findById
PaymentExists(id) ==
  /\ id \in PaymentObjectIds
  /\ PaymentIndex(id) <= Len(payments)
  /\ payments[PaymentIndex(id)].isActive

HttpRenewalData == [renewalPeriod |-> MinRenewalPeriod, paymentAmount |-> 50]

ModelledControllers ==
  {"getMemberById", "getMyProfile", "disableMember", "renewMembership",
   "getExpiringMembers", "extendMembership", "getPaymentById",
   "getPaymentsByMember", "getEventPayments", "uploadReceipt"}

\* the object uploadToFirebase writes: cms-receipts/<Date.now()>-<name>
ReceiptObject(file) == [folder |-> "cms-receipts", at |-> now, file |-> file]

\* uploadService.uploadToFirebase(req.file, "receipts") as the controller
\* uploadReceipt calls it, ahead of the service: the objects in storage
\* after it.  firebase tells whether the bucket takes the upload.
UploadToFirebase(name, req, firebase) ==
  IF name = "uploadReceipt" /\ req.file # "absent" /\ firebase
    THEN storage \cup {ReceiptObject(req.file)}
  ELSE storage

\* the controller with the service method it calls
ControllerOutcome(name, id, req, user, paymentId, firebase) ==
  LET member == FindById(members, NoMember, ObjectIdToString(id))
  IN
  IF name = "getMemberById" THEN
    IF ~member.exists \/ ~member.isActive
      THEN Thrown(NewError("Member not found"))
    ELSE Sent(members, payments, OK)
  ELSE IF name = "getMyProfile" THEN
    IF \A m \in MemberIds : ~(members[m].exists /\ members[m].user = user)
      THEN Outcome(members, payments, FALSE, NOT_FOUND,
                   "Member profile not found")
    ELSE Sent(members, payments, OK)
  ELSE IF name = "disableMember" THEN
    IF ~member.exists THEN Thrown(NewError("Member not found"))
    ELSE Sent([members EXCEPT ![id] = disableMemberDoc(member)], payments, OK)
  ELSE IF name = "renewMembership" THEN
    IF ~member.exists \/ ~member.isActive
      THEN Thrown(NewError("Member not found"))
    ELSE Sent([members EXCEPT ![id] =
                 RenewedMember(member,
                   NewRenewalDate(member.renewalDate,
                                  HttpRenewalData.renewalPeriod))],
              Append(payments,
                     RenewalPayment(paymentId, ObjectIdToString(id),
                                    HttpRenewalData, user)),
              OK)
  ELSE IF name = "getExpiringMembers"
    THEN Thrown(NotAFunction("MemberService.getExpiringMembers"))
  ELSE IF name = "extendMembership"
    THEN Thrown(NotAFunction("MemberService.extendMembership"))
  ELSE IF name = "getPaymentById" THEN
    IF ~PaymentExists(id) THEN Thrown(NewError("Payment not found"))
    ELSE Sent(members, payments, OK)
  ELSE IF name = "getPaymentsByMember" THEN
    IF id \notin ObjectIdStrings THEN Thrown(CastError)
    ELSE IF ~member.exists \/ ~member.isActive
      THEN Thrown(NewError("Member not found"))
    ELSE Sent(members, payments, OK)
  ELSE IF name = "getEventPayments" THEN
    IF id \notin ObjectIdStrings THEN Thrown(CastError)
    ELSE IF id \notin EventIds \/ ~events[id].exists \/ ~events[id].isActive
      THEN Thrown(NewError("Event not found"))
    ELSE Sent(members, payments, OK)
  ELSE \* uploadReceipt
    IF req.file = "absent"
      THEN Outcome(members, payments, FALSE, BAD_REQUEST,
                   "Receipt file is required")
    ELSE IF ~firebase THEN Thrown(NewError("Firebase not initialized"))
    ELSE IF ~PaymentExists(id) THEN Thrown(PaymentNotFound)
    ELSE Sent(members,
              [payments EXCEPT ![PaymentIndex(id)] =
                 [receiptFile |-> "receipts/" \o id] @@ @],
              OK)

PathsOf(router) ==
  IF router = "members"
  THEN {<<"me">>, <<"expiring-soon">>}
         \cup {<<i>> : i \in {"m1", NoSuchId}}
         \cup {<<i, w>> : i \in {"m1", NoSuchId}, w \in {"renew", "disable"}}
  ELSE {<<i>> : i \in {"p1", NoSuchId}}
         \cup {<<i, "receipt">> : i \in {"p1", NoSuchId}}
         \cup {<<"member", i>> : i \in {"m1", MalformedId}}
         \cup {<<"event", i>> : i \in {NoSuchId, MalformedId}}

Methods == {"GET", "POST", "PATCH"}

\* the listings by member and by event are only asked for with GET
MethodsOf(path) ==
  IF Len(path) = 2 /\ path[1] \in {"member", "event"} THEN {"GET"}
  ELSE Methods

\* a body comes with a renewal only, a file with a receipt upload only
RequestsTo(router, method, path) ==
  [router : {router}, method : {method}, path : {path}, token : Tokens,
   valid : IF method = "POST" /\ path[Len(path)] = "renew"
           THEN BOOLEAN ELSE {TRUE},
   file : IF method = "POST" /\ path[Len(path)] = "receipt"
          THEN Files ELSE {"absent"}]

HttpRequests ==
  UNION {RequestsTo(router, method, path) :
           router \in {"members"}, method \in Methods,
           path \in PathsOf("members")}
    \cup
  UNION {RequestsTo("payments", line[1], line[2]) :
           line \in {l \in Methods \X PathsOf("payments") :
                      l[1] \in MethodsOf(l[2])}}

\* the part of a request that the response is recorded with
Line(req) ==
  [router |-> req.router, method |-> req.method, path |-> req.path,
   token |-> req.token]

\* one HTTP request, from the router to the response
request(req, paymentId, firebase) ==
  LET routes == RoutesOf(req.router)
      k == Dispatch(routes, req)
      route == routes[k]
      run == RunChain(route, 1, req, "", <<>>)
      out == ControllerOutcome(run.controller, ParamOf(route, req), req,
                               run.user, paymentId, firebase)
  IN  /\ IF k = 0
         THEN /\ last' = Response("request", FALSE, "API endpoint not found",
                           [status |-> NOT_FOUND, ran |-> <<>>, route |-> "",
                            request |-> Line(req)])
              /\ UNCHANGED <<members, payments, storage>>
         ELSE IF run.rejected
         THEN /\ last' = Response("request", FALSE, run.message,
                           [status |-> run.status, ran |-> run.ran,
                            route |-> route.chain[Len(route.chain)].schema,
                            request |-> Line(req)])
              /\ UNCHANGED <<members, payments, storage>>
         ELSE /\ run.controller \in ModelledControllers
              /\ run.controller = "renewMembership"
                   => (Len(payments) < MaxPayments /\ ~PaymentIdUsed(paymentId))
              /\ members' = out.members
              /\ payments' = out.payments
              /\ storage' = UploadToFirebase(run.controller, req, firebase)
              /\ last' = Response("request", out.ok, out.message,
                           [status |-> out.status, ran |-> run.ran,
                            route |-> run.controller, request |-> Line(req)])
      /\ UNCHANGED <<users, zones, events, now, notifications, process, reqs>>

\* an administrator, a member and a deactivated member account
InitHttp ==
  /\ users = [SomeUsers EXCEPT !["u2"].isActive = FALSE]
  /\ zones = [z \in ZoneIds |->
                [exists |-> TRUE, name |-> [key |-> z, upper |-> FALSE],
                 isActive |-> TRUE]]
  /\ members = [m \in MemberIds |->
                  IF m = "m1" THEN SomeMember("u1", "z1", "MEM1")
                  ELSE SomeMember("u2", "z1", "MEM2")]
  /\ events = [e \in EventIds |-> NoEvent]
  /\ payments = <<>>
  /\ now = Day0
  /\ notifications = <<>>
  /\ storage = {}
  /\ process = Serving
  /\ reqs = <<>>
  /\ last = NoResponse

NextHttp ==
  \E req \in HttpRequests :
    \E paymentId \in IF req.path[Len(req.path)] = "renew" THEN PaymentIdPool
                      ELSE {"PAY1"},
       firebase \in IF req.path[Len(req.path)] = "receipt" THEN BOOLEAN
                     ELSE {TRUE} :
      request(req, paymentId, firebase)

SpecHttp == InitHttp /\ [][NextHttp]_vars

-----------------------------------------------------------------------------
(* registerMemberForEvent, one step per await, so that requests interleave. *)

IdleRegistration ==
  [pc |-> "idle", eventId |-> NoSuchId, memberId |-> NoSuchId,
   event |-> NoEvent]

\* await Promise.all([Event.findById, Member.findById]) and the checks on
\* the documents read; the attendee is pushed onto the request's own copy
registerFind(r, eventId, memberId) ==
  LET event == FindById(events, NoEvent, eventId)
      member == FindById(members, NoMember, memberId)
      error == RegisterError(event, member, memberId)
  IN  /\ reqs[r].pc = "idle"
      /\ IF error # ""
         THEN /\ last' = Response("registerMemberForEvent", FALSE, error,
                                  NoData)
              /\ UNCHANGED reqs
         ELSE /\ reqs' = [reqs EXCEPT ![r] =
                   [pc |-> "save", eventId |-> CastObjectId(eventId),
                    memberId |-> CastObjectId(memberId),
                    event |-> [event EXCEPT !.attendees =
                                 Append(@, NewAttendee(event, memberId))]]]
              /\ UNCHANGED last
      /\ UNCHANGED <<users, zones, members, events, payments, now, notifications, storage, process>>

\* what event.save() sends for the pushed attendee: $push of the new
\* subdocument onto the stored array, whatever the array holds by then
PushedAttendees(stored, event) ==
  Append(stored.attendees, event.attendees[Len(event.attendees)])

\* await event.save(); populate; return
registerSave(r) ==
  LET e == reqs[r].eventId
  IN  /\ reqs[r].pc = "save"
      /\ Len(events[e].attendees) < MaxAttendeesLen
      /\ events' = [events EXCEPT ![e].attendees =
                      PushedAttendees(events[e], reqs[r].event)]
      /\ reqs' = [reqs EXCEPT ![r] = IdleRegistration]
      /\ last' = Response("registerMemberForEvent", TRUE, "", NoData)
      /\ UNCHANGED <<users, zones, members, payments, now, notifications, storage, process>>

\* one upcoming event, with or without a cap, and two enrolled members
InitRegister ==
  /\ users = SomeUsers
  /\ zones = [z \in ZoneIds |->
                [exists |-> TRUE, name |-> [key |-> z, upper |-> FALSE],
                 isActive |-> TRUE]]
  /\ members = [m \in MemberIds |->
                  IF m = "m1" THEN SomeMember("u1", "z1", "MEM1")
                  ELSE SomeMember("u2", "z1", "MEM2")]
  /\ \E c \in Caps \cup {NoCap}, f \in Fees :
       events = [e \in EventIds |->
                   [exists |-> TRUE, isActive |-> TRUE, status |-> "Upcoming",
                    maxAttendees |-> c, registrationFee |-> f,
                    attendees |-> <<>>]]
  /\ payments = <<>>
  /\ now = Day0
  /\ notifications = <<>>
  /\ storage = {}
  /\ process = Serving
  /\ reqs = [r \in ReqSlots |-> IdleRegistration]
  /\ last = NoResponse

NextRegister ==
  \/ \E r \in ReqSlots, e \in CanonIdsOf(EventIds), m \in CanonIdsOf(MemberIds) :
       registerFind(r, e, m)
  \/ \E r \in ReqSlots : registerSave(r)

SpecRegister == InitRegister /\ [][NextRegister]_vars

-----------------------------------------------------------------------------
(* renewMembership and createPayment, one step per await, so that requests *)
(* interleave and the process can stop between two steps.                  *)

\* the store accepts no more payments than this from interleaved requests
MaxStoredPayments == 2

\* the renewal bodies of interleaved requests: one month, one year
StepRenewalBodies == [renewalPeriod : {MinRenewalPeriod, 12}, paymentAmount : {50}]

\* createPaymentSchema: memberId, amount, paymentType; eventId is optional
\* ("absent" stands for a body without it)
CreatePaymentBodies ==
  [memberId : CanonIdsOf(MemberIds), amount : {50},
   paymentType : {"Membership Fee", "Other"},
   eventId : {"absent"} \cup {e.id : e \in CanonIdsOf(EventIds)}]

\* the Payment document createPayment builds; status defaults to Pending
NewPayment(paymentId, paymentData, processedBy) ==
  [paymentId |-> paymentId,
   member |-> CastObjectId(paymentData.memberId),
   amount |-> paymentData.amount,
   paymentType |-> paymentData.paymentType,
   description |-> 0,
   status |-> "Pending",
   processedBy |-> processedBy,
   isActive |-> TRUE]

\* the two writes of a renewal, in the order renewMembership awaits them
RenewalWritesMemberFirst == <<"saveMember", "savePayment">>

RenewalWrites == <<"savePayment", "saveMember">>

\* the step after a write of a renewal: its other write, or the return
AfterWrite(write) ==
  IF write = RenewalWrites[1] THEN RenewalWrites[2] ELSE "return"

\* await Member.findById(memberId); the check; the new date
renewFind(r, memberId, renewalData, processedBy) ==
  LET member == FindById(members, NoMember, memberId)
      currentRenewalDate == member.renewalDate
  IN  /\ reqs[r].pc = "idle"
      /\ IF ~member.exists \/ ~member.isActive
         THEN /\ last' = Response("renewMembership", FALSE,
                                  "Member not found", NoData)
              /\ UNCHANGED reqs
         ELSE /\ reqs' = [reqs EXCEPT ![r] =
                   [pc |-> "paymentId", op |-> "renewMembership",
                    payment |-> RenewalPayment("", memberId, renewalData,
                                               processedBy),
                    previousRenewalDate |-> currentRenewalDate,
                    newRenewalDate |->
                      NewRenewalDate(currentRenewalDate,
                                     renewalData.renewalPeriod)]]
              /\ UNCHANGED last
      /\ UNCHANGED <<users, zones, members, events, payments, now, notifications, storage, process>>

\* await Member.findById(paymentData.memberId); await Event.findById(
\* paymentData.eventId) when the body names an event (no step here writes
\* an event, so both reads see the store of the same instant)
createPaymentFind(r, paymentData, processedBy) ==
  LET member == FindById(members, NoMember, paymentData.memberId)
      event == IF paymentData.eventId \in EventIds
               THEN events[paymentData.eventId] ELSE NoEvent
  IN  /\ reqs[r].pc = "idle"
      /\ IF ~member.exists \/ ~member.isActive
         THEN /\ last' = Response("createPayment", FALSE, "Member not found",
                                  NoData)
              /\ UNCHANGED reqs
         ELSE IF paymentData.eventId # "absent"
                 /\ (~event.exists \/ ~event.isActive)
         THEN /\ last' = Response("createPayment", FALSE, "Event not found",
                                  NoData)
              /\ UNCHANGED reqs
         ELSE /\ reqs' = [reqs EXCEPT ![r] =
                   [pc |-> "paymentId", op |-> "createPayment",
                    payment |-> NewPayment("", paymentData, processedBy),
                    previousRenewalDate |-> 0, newRenewalDate |-> 0]]
              /\ UNCHANGED last
      /\ UNCHANGED <<users, zones, members, events, payments, now, notifications, storage, process>>

\* the loop around generatePaymentId() in both services: it leaves with an
\* identifier that no payment had when it was looked up
generateUniquePaymentId(r, paymentId) ==
  /\ reqs[r].pc = "paymentId"
  /\ ~PaymentIdUsed(paymentId)
  /\ reqs' = [reqs EXCEPT
       ![r].pc = IF reqs[r].op = "renewMembership" THEN RenewalWrites[1]
                 ELSE "savePayment",
       ![r].payment.paymentId = paymentId]
  /\ UNCHANGED <<users, zones, members, events, payments, now, notifications, storage, process, last>>

\* a store whose unique index on payment.paymentId is missing
PaymentIndexConflictNone(paymentId) == ""

\* the unique index of paymentSchema on paymentId
PaymentIndexConflict(paymentId) ==
  IF PaymentIdUsed(paymentId) THEN "paymentId already exists" ELSE ""

\* what the finished request returns
PaymentResult(req) ==
  IF req.op = "renewMembership"
  THEN [member |-> req.payment.member, payment |-> req.payment,
        previousRenewalDate |-> req.previousRenewalDate,
        newRenewalDate |-> req.newRenewalDate]
  ELSE [payment |-> req.payment]

\* the request moves past one of its writes
Written(r, write) ==
  IF reqs[r].op = "renewMembership" /\ AfterWrite(write) # "return"
  THEN /\ reqs' = [reqs EXCEPT ![r].pc = AfterWrite(write)]
       /\ UNCHANGED last
  ELSE Finish(r, Response(reqs[r].op, TRUE, "", PaymentResult(reqs[r])))

\* await payment.save()
paymentSave(r) ==
  LET error == PaymentIndexConflict(reqs[r].payment.paymentId)
  IN  /\ reqs[r].pc = "savePayment"
      /\ IF error # ""
         THEN /\ Finish(r, Response(reqs[r].op, FALSE, error, NoData))
              /\ UNCHANGED payments
         ELSE /\ Len(payments) < MaxStoredPayments
              /\ payments' = Append(payments, reqs[r].payment)
              /\ Written(r, "savePayment")
      /\ UNCHANGED <<users, zones, members, events, now, notifications, storage, process>>

\* member.renewalDate = newRenewalDate; member.status = "Active";
\* await member.save()
renewSaveMember(r) ==
  /\ reqs[r].pc = "saveMember"
  /\ members' = [members EXCEPT ![reqs[r].payment.member] =
                   RenewedMember(@, reqs[r].newRenewalDate)]
  /\ Written(r, "saveMember")
  /\ UNCHANGED <<users, zones, events, payments, now, notifications, storage, process>>

\* the process stops: the requests in flight are gone with it, the store
\* keeps what they had written
stop ==
  /\ \E r \in ReqSlots : reqs[r].pc # "idle"
  /\ reqs' = [r \in ReqSlots |-> IdleReq]
  /\ last' = Response("stop", FALSE, "",
                      [pending |-> {reqs[r].pc : r \in ReqSlots}])
  /\ UNCHANGED <<users, zones, members, events, payments, now, notifications, storage, process>>

\* one enrolled member, one disabled member, no payment yet
InitStop ==
  /\ users = SomeUsers
  /\ zones = [z \in ZoneIds |->
                [exists |-> TRUE, name |-> [key |-> z, upper |-> FALSE],
                 isActive |-> TRUE]]
  /\ members = [m \in MemberIds |->
                  IF m = "m1" THEN SomeMember("u1", "z1", "MEM1")
                  ELSE disableMemberDoc(SomeMember("u2", "z1", "MEM2"))]
  /\ events = [e \in EventIds |-> NoEvent]
  /\ payments = <<>>
  /\ now = Day0
  /\ notifications = <<>>
  /\ storage = {}
  /\ process = Serving
  /\ reqs = [r \in ReqSlots |-> IdleReq]
  /\ last = NoResponse

NextStop ==
  \/ \E r \in ReqSlots, m \in CanonIdsOf(MemberIds),
        rd \in StepRenewalBodies, by \in Admins : renewFind(r, m, rd, by)
  \/ \E r \in ReqSlots, paymentId \in PaymentIdPool :
       generateUniquePaymentId(r, paymentId)
  \/ \E r \in ReqSlots : paymentSave(r)
  \/ \E r \in ReqSlots : renewSaveMember(r)
  \/ stop

SpecStop == InitStop /\ [][NextStop]_vars

-----------------------------------------------------------------------------
(* Every operation that creates a member or a payment, interleaved.        *)

\* the bodies of these requests: users that can be enrolled in the active
\* zone, and payments and renewals of the first member enrolled
IdsMemberBodies ==
  {b \in CreateMemberBodies :
     b.userId.id \in {"u1", "u2"} /\ b.zoneId.id = "z1"}

IdsPaymentBodies ==
  {b \in CreatePaymentBodies :
     b.memberId.id = "m1" /\ b.paymentType = "Other" /\ b.eventId = "absent"}

IdsRenewalBodies ==
  {b \in StepRenewalBodies : b.renewalPeriod = MinRenewalPeriod}

NextIds ==
  \/ \E r \in ReqSlots, memberData \in IdsMemberBodies :
       createMemberFindUser(r, memberData)
  \/ \E r \in ReqSlots : createMemberFindMember(r)
  \/ \E r \in ReqSlots : createMemberFindZone(r)
  \/ \E r \in ReqSlots, memberId \in MemberIdPool :
       createMemberGenerateId(r, memberId)
  \/ \E r \in ReqSlots : createMemberSave(r)
  \/ \E r \in ReqSlots, qrGenerated \in BOOLEAN : createMemberQR(r, qrGenerated)
  \/ \E r \in ReqSlots, rd \in IdsRenewalBodies, by \in Admins :
       renewFind(r, ObjectIdToString("m1"), rd, by)
  \/ \E r \in ReqSlots, paymentData \in IdsPaymentBodies, by \in Admins :
       createPaymentFind(r, paymentData, by)
  \/ \E r \in ReqSlots, paymentId \in PaymentIdPool :
       generateUniquePaymentId(r, paymentId)
  \/ \E r \in ReqSlots : paymentSave(r)
  \/ \E r \in ReqSlots : renewSaveMember(r)

SpecIds == InitCreate /\ [][NextIds]_vars

-----------------------------------------------------------------------------
(* Notification service.                                                   *)

\* a request names no more target members than this
MaxTargets == 2

\* the store accepts no more notifications than this
MaxNotifications == 2

\* sequences over S of length at most n
RECURSIVE SeqsUpTo(_, _)
SeqsUpTo(S, n) ==
  IF n = 0 THEN {<<>>}
  ELSE LET shorter == SeqsUpTo(S, n - 1)
       IN  shorter \cup {Append(s, x) : s \in shorter, x \in S}

NotificationTypes == {"General"}

\* createNotificationSchema: targetMembers is an array of ObjectId strings
NotificationBodies ==
  [type : NotificationTypes,
   targetMembers : SeqsUpTo(CanonIdsOf(MemberIds), MaxTargets)]

\* Member.find({ _id: { $in: targetMembers }, isActive: true })
FindActiveMembersIn(targetMembers) ==
  {m \in MemberIds :
     /\ members[m].exists
     /\ members[m].isActive
     /\ \E i \in DOMAIN targetMembers : CastObjectId(targetMembers[i]) = m}

\* members.length !== notificationData.targetMembers.length
TargetsMissing(targetMembers) ==
  Cardinality(FindActiveMembersIn(targetMembers)) # Len(targetMembers)

\* new Notification({ ...notificationData, sentBy })
NewNotification(notificationData, sentBy) ==
  [type |-> notificationData.type,
   targetMembers |->
     [i \in DOMAIN notificationData.targetMembers |->
        CastObjectId(notificationData.targetMembers[i])],
   sentBy |-> sentBy,
   status |-> "Sent",
   isActive |-> TRUE]

createNotification(notificationData, sentBy) ==
  /\ IF Len(notificationData.targetMembers) > 0
        /\ TargetsMissing(notificationData.targetMembers)
     THEN /\ last' = Response("createNotification", FALSE,
                              "One or more target members not found", NoData)
          /\ UNCHANGED notifications
     ELSE /\ Len(notifications) < MaxNotifications
          /\ notifications' =
               Append(notifications, NewNotification(notificationData, sentBy))
          /\ last' = Response("createNotification", TRUE, "", NoData)
  /\ UNCHANGED <<users, zones, members, events, payments, now, storage, process, reqs>>

\* two enrolled members, either of which may be disabled later
InitNotify ==
  /\ users = SomeUsers
  /\ zones = [z \in ZoneIds |->
                [exists |-> TRUE, name |-> [key |-> z, upper |-> FALSE],
                 isActive |-> TRUE]]
  /\ members = [m \in MemberIds |->
                  IF m = "m1" THEN SomeMember("u1", "z1", "MEM1")
                  ELSE SomeMember("u2", "z1", "MEM2")]
  /\ events = [e \in EventIds |-> NoEvent]
  /\ payments = <<>>
  /\ now = Day0
  /\ notifications = <<>>
  /\ storage = {}
  /\ process = Serving
  /\ reqs = <<>>
  /\ last = NoResponse

NextNotify ==
  \/ \E notificationData \in NotificationBodies, by \in Admins :
       createNotification(notificationData, by)
  \/ \E m \in CanonIdsOf(MemberIds) : disableMember(m)

SpecNotify == InitNotify /\ [][NextNotify]_vars

-----------------------------------------------------------------------------
(* Listings: getAllEvents over a store of any size.  page and limit reach  *)
(* the service as the strings of the query (the validation middleware      *)
(* checks them and drops Joi's converted values) or, when absent, as the   *)
(* numeric defaults.  A numeric string is its digits and, in exponent      *)
(* notation ("1e1"), the exponent after them.                              *)

\* the store of a listing holds no more events than this
MaxTotal == 25

\* the highest page a request asks for
MaxPage == 4

NoExponent == 0 - 1

\* the decimal spelling of n, as String(n) gives it
Plain(n) == [digits |-> n, exponent |-> NoExponent]

\* the spelling "<digits>e<exponent>"
Exponent(n, e) == [digits |-> n, exponent |-> e]

\* Number(s), the conversion arithmetic and comparison apply to a string
ToNumber(s) ==
  IF s.exponent = NoExponent THEN s.digits ELSE s.digits * 10 ^ s.exponent

\* parseInt(s): the leading digits, up to the first character that is none
parseInt(s) == s.digits

Absent == [digits |-> 0, exponent |-> NoExponent]

\* eventFilterSchema: page is an integer >= 1, limit an integer in 1..100
PageStrings == {Plain(n) : n \in 1..MaxPage} \cup {Exponent(1, 1)}

LimitStrings == {Plain(n) : n \in {1, 2, 5, 10, 100}} \cup {Exponent(1, 1)}

EventFilters ==
  [page : PageStrings \cup {Absent}, limit : LimitStrings \cup {Absent}]

\* Math.ceil(a / b) for a >= 0 and b > 0
Ceil(a, b) == (a + b - 1) \div b

\* the ids of the events a query { isActive: true } matches, in the order
\* of the sort
MatchingEvents ==
  LET ids == {e \in DOMAIN events : events[e].exists /\ events[e].isActive}
  IN  [i \in 1..Cardinality(ids) |->
         CHOOSE e \in ids : Cardinality({f \in ids : f < e}) = i - 1]

\* find(query).sort(...).skip(skip).limit(n)
SkipLimit(docs, skip, n) ==
  [i \in 1..(IF Len(docs) - skip < 0 THEN 0
             ELSE IF Len(docs) - skip < n THEN Len(docs) - skip ELSE n) |->
     docs[skip + i]]

getAllEvents(filters) ==
  LET page == IF filters.page = Absent THEN Plain(1) ELSE filters.page
      limit == IF filters.limit = Absent THEN Plain(10) ELSE filters.limit
      skip == (ToNumber(page) - 1) * ToNumber(limit)
      total == Len(MatchingEvents)
  IN  /\ last' = Response("getAllEvents", TRUE, "",
           [events |-> SkipLimit(MatchingEvents, skip, parseInt(limit)),
            pagination |->
              [currentPage |-> parseInt(page),
               totalPages |-> Ceil(total, ToNumber(limit)),
               totalEvents |-> total,
               hasNext |-> ToNumber(page) * ToNumber(limit) < total,
               hasPrev |-> ToNumber(page) > 1],
            filters |-> filters])
      /\ UNCHANGED <<users, zones, members, events, payments, now,
                     notifications, storage, process, reqs>>

\* a store of any number of events, the first of them deleted
InitPage ==
  /\ users = SomeUsers
  /\ zones = [z \in ZoneIds |->
                [exists |-> TRUE, name |-> [key |-> z, upper |-> FALSE],
                 isActive |-> TRUE]]
  /\ members = [m \in MemberIds |-> NoMember]
  /\ \E n \in 0..MaxTotal :
       events = [e \in 0..n |->
                   [exists |-> TRUE, isActive |-> e # 0, status |-> "Upcoming",
                    maxAttendees |-> NoCap, registrationFee |-> 0,
                    attendees |-> <<>>]]
  /\ payments = <<>>
  /\ now = Day0
  /\ notifications = <<>>
  /\ storage = {}
  /\ process = Serving
  /\ reqs = <<>>
  /\ last = NoResponse

NextPage == \E filters \in EventFilters : getAllEvents(filters)

SpecPage == InitPage /\ [][NextPage]_vars

-----------------------------------------------------------------------------
(* Interleaved renewals of a process that keeps running.                   *)

NextRenewals ==
  \/ \E r \in ReqSlots, m \in CanonIdsOf(MemberIds),
        rd \in StepRenewalBodies, by \in Admins : renewFind(r, m, rd, by)
  \/ \E r \in ReqSlots, paymentId \in PaymentIdPool :
       generateUniquePaymentId(r, paymentId)
  \/ \E r \in ReqSlots : paymentSave(r)
  \/ \E r \in ReqSlots : renewSaveMember(r)

SpecRenewals == InitStop /\ [][NextRenewals]_vars

-----------------------------------------------------------------------------
(* deleteZone and updateMember, one step per await, interleaved with        *)
(* createMember.                                                            *)

\* await Zone.findOne({ _id: zoneId, isActive: true })
deleteZoneFind(r, zoneId) ==
  LET zone == FindById(zones, NoZone, zoneId)
  IN  /\ reqs[r].pc = "idle"
      /\ IF ~zone.exists \/ ~zone.isActive
         THEN /\ last' = Response("deleteZone", FALSE, "Zone not found", NoData)
              /\ UNCHANGED reqs
         ELSE /\ reqs' = [reqs EXCEPT ![r] =
                            [IdleReq EXCEPT !.pc = "countMembers",
                                            !.zoneId = CastObjectId(zoneId)]]
              /\ UNCHANGED last
      /\ UNCHANGED <<users, zones, members, events, payments, now,
                     notifications, storage, process>>

\* await Member.countDocuments({ zone: zoneId, isActive: true }); the check
deleteZoneCount(r) ==
  /\ reqs[r].pc = "countMembers"
  /\ IF ActiveMemberCount(reqs[r].zoneId) > 0
     THEN Finish(r, Response("deleteZone", FALSE,
            "Cannot delete zone. It has "
              \o ToString(ActiveMemberCount(reqs[r].zoneId))
              \o " active member(s). Please reassign or remove members first.",
            NoData))
     ELSE /\ reqs' = [reqs EXCEPT ![r].pc = "saveZone"]
          /\ UNCHANGED last
  /\ UNCHANGED <<users, zones, members, events, payments, now,
                 notifications, storage, process>>

\* zone.isActive = false; await zone.save()
deleteZoneSave(r) ==
  /\ reqs[r].pc = "saveZone"
  /\ zones' = [zones EXCEPT ![reqs[r].zoneId].isActive = FALSE]
  /\ Finish(r, Response("deleteZone", TRUE, "", [zone |-> reqs[r].zoneId]))
  /\ UNCHANGED <<users, members, events, payments, now, notifications, storage, process>>

\* await Member.findById(memberId), for an update that names a zone
updateMemberFind(r, memberId, updateData) ==
  LET member == FindById(members, NoMember, memberId)
  IN  /\ reqs[r].pc = "idle"
      /\ IF ~member.exists \/ ~member.isActive
         THEN /\ last' = Response("updateMember", FALSE, "Member not found",
                                  NoData)
              /\ UNCHANGED reqs
         ELSE /\ reqs' = [reqs EXCEPT ![r] =
                            [IdleReq EXCEPT
                               !.pc = "findNewZone",
                               !.doc = CastObjectId(memberId),
                               !.zoneId = CastObjectId(updateData.zoneId)]]
              /\ UNCHANGED last
      /\ UNCHANGED <<users, zones, members, events, payments, now,
                     notifications, storage, process>>

\* await Zone.findById(updateData.zoneId); the check
updateMemberFindZone(r) ==
  LET zone == FindById(zones, NoZone, ObjectIdToString(reqs[r].zoneId))
  IN  /\ reqs[r].pc = "findNewZone"
      /\ IF ~zone.exists \/ ~zone.isActive
         THEN Finish(r, Response("updateMember", FALSE,
                                 "Zone not found or inactive", NoData))
         ELSE /\ reqs' = [reqs EXCEPT ![r].pc = "saveMoved"]
              /\ UNCHANGED last
      /\ UNCHANGED <<users, zones, members, events, payments, now,
                     notifications, storage, process>>

\* Object.assign(member, updateData); await member.save()
updateMemberSave(r) ==
  /\ reqs[r].pc = "saveMoved"
  /\ members' = [members EXCEPT ![reqs[r].doc].zone = reqs[r].zoneId]
  /\ Finish(r, Response("updateMember", TRUE, "", [member |-> reqs[r].doc]))
  /\ UNCHANGED <<users, zones, events, payments, now, notifications, storage, process>>

\* two active zones, one member in the first of them
InitMove ==
  /\ users = SomeUsers
  /\ zones = [z \in ZoneIds |->
                [exists |-> TRUE, name |-> [key |-> z, upper |-> FALSE],
                 isActive |-> TRUE]]
  /\ members = [m \in MemberIds |->
                  IF m = "m1" THEN SomeMember("u1", "z1", "MEM1")
                  ELSE NoMember]
  /\ events = [e \in EventIds |-> NoEvent]
  /\ payments = <<>>
  /\ now = Day0
  /\ notifications = <<>>
  /\ storage = {}
  /\ process = Serving
  /\ reqs = [r \in ReqSlots |-> IdleReq]
  /\ last = NoResponse

\* the bodies of the interleaved createMember requests: the user without a
\* profile, either zone
MoveMemberBodies == {b \in CreateMemberBodies : b.userId.id = "u2"}

NextMove ==
  \/ \E r \in ReqSlots, memberData \in MoveMemberBodies :
       createMemberFindUser(r, memberData)
  \/ \E r \in ReqSlots : createMemberFindMember(r)
  \/ \E r \in ReqSlots : createMemberFindZone(r)
  \/ \E r \in ReqSlots, memberId \in MemberIdPool :
       createMemberGenerateId(r, memberId)
  \/ \E r \in ReqSlots : createMemberSave(r)
  \/ \E r \in ReqSlots, qrGenerated \in BOOLEAN : createMemberQR(r, qrGenerated)
  \/ \E r \in ReqSlots, z \in CanonIdsOf(ZoneIds) : deleteZoneFind(r, z)
  \/ \E r \in ReqSlots : deleteZoneCount(r)
  \/ \E r \in ReqSlots : deleteZoneSave(r)
  \/ \E r \in ReqSlots, m \in CanonIdsOf(MemberIds), z \in CanonIdsOf(ZoneIds) :
       updateMemberFind(r, m, [zoneId |-> z, status |-> "absent"])
  \/ \E r \in ReqSlots : updateMemberFindZone(r)
  \/ \E r \in ReqSlots : updateMemberSave(r)

SpecMove == InitMove /\ [][NextMove]_vars

-----------------------------------------------------------------------------
(* The process from its start to its exit.                                  *)

InitProcess ==
  /\ users = [u \in UserIds |-> NoUser]
  /\ zones = [z \in ZoneIds |-> NoZone]
  /\ members = [m \in MemberIds |-> NoMember]
  /\ events = [e \in EventIds |-> NoEvent]
  /\ payments = <<>>
  /\ now = Day0
  /\ notifications = <<>>
  /\ storage = {}
  /\ process = Starting
  /\ reqs = <<>>
  /\ last = NoResponse

NextProcess ==
  \/ \E connected \in BOOLEAN : start(connected)
  \/ \E c \in ConnIds : open(c)
  \/ \E c \in ConnIds : respond(c)
  \/ \E c \in ConnIds : nextRequest(c)
  \/ \E c \in ConnIds : end(c)
  \/ \E c \in ConnIds : keepAliveTimeout(c)
  \/ \E closeIdle \in BOOLEAN : unhandledRejection(closeIdle)
  \/ uncaughtException
  \/ closed

SpecProcess == InitProcess /\ [][NextProcess]_vars

\* the event loop runs a callback that is due: the callback of
\* server.close() once the server has closed, and the keep-alive timer of a
\* connection that stays idle.  When a client ends a connection, sends a
\* request, or a response gets finished is not the server's to decide.
SpecProcessLive ==
  /\ SpecProcess
  /\ WF_vars(closed)
  /\ \A c \in ConnIds : WF_vars(keepAliveTimeout(c))

-----------------------------------------------------------------------------
(* Event claims.                                                           *)

\* C1: in every state reached by event operations, an event whose
\* maxAttendees is set holds at most maxAttendees attendees.
AttendeesWithinCapacity ==
  \A e \in EventIds :
    (events[e].exists /\ events[e].maxAttendees # NoCap)
      => Len(events[e].attendees) <= events[e].maxAttendees

\* C2: after any sequence of registrations no member reference appears
\* more than once in an event's attendees.
NoDuplicateAttendee ==
  \A e \in EventIds :
    \A i, j \in DOMAIN events[e].attendees :
      i # j => events[e].attendees[i].member # events[e].attendees[j].member

-----------------------------------------------------------------------------
(* Renewal claims.                                                         *)

\* the calendar month renewalPeriod months after the month of date c
TargetMonth(c, renewalPeriod) ==
  LET t == c.y * 12 + c.m + renewalPeriod
  IN  [y |-> t \div 12, m |-> t % 12]

RenewalRecordsOnePayment ==
  [][\A m \in CanonIdsOf(MemberIds), rd \in RenewalBodies, by \in Admins :
       renewMembership(m, rd, by) =>
         LET member == FindById(members, NoMember, m)
         IN  IF member.exists /\ member.isActive
             THEN /\ last'.ok
                  /\ Len(payments') = Len(payments) + 1
                  /\ SubSeq(payments', 1, Len(payments)) = payments
                  /\ payments'[Len(payments')].member = CastObjectId(m)
                  /\ payments'[Len(payments')].paymentType = "Membership Fee"
                  /\ payments'[Len(payments')].status = "Completed"
                  /\ payments'[Len(payments')].amount = rd.paymentAmount
                  /\ members'[CastObjectId(m)].status = "Active"
                  /\ members'[CastObjectId(m)].isActive
                  /\ \A o \in MemberIds \ {CastObjectId(m)} :
                       members'[o] = members[o]
             ELSE /\ ~last'.ok
                  /\ last'.error = "Member not found"
                  /\ payments' = payments
                  /\ members' = members
    ]_vars

\* a renewal of a member has succeeded and its payment is in the store
RenewalSucceeded ==
  /\ last.op = "renewMembership" /\ last.ok
  /\ Len(payments) >= 1
  /\ payments[Len(payments)].member = last.data.member
  /\ members[last.data.member].status = "Active"

-----------------------------------------------------------------------------
(* Member life-cycle claims.                                               *)

\* C5: after updateExpiredMembers() every member with isActive = true
\* whose renewalDate is in the past has status Expired.
SweepExpiresLapsedMembers ==
  last.op = "updateExpiredMembers" =>
    \A m \in MemberIds :
      (members[m].exists /\ members[m].isActive /\ members[m].renewalDate < now)
        => members[m].status = "Expired"

\* C10 as stated: once a member's status is Inactive no operation changes it.
InactiveStatusIsTerminal ==
  [][\A m \in MemberIds :
       (members[m].exists /\ members[m].status = "Inactive")
         => members'[m].status = "Inactive"]_vars

\* C10 amended: a disabled member (isActive = false) has status Inactive,
\* and no later operation changes its status or enables it again.
DisabledIsTerminal ==
  [][\A m \in MemberIds :
       (members[m].exists /\ ~members[m].isActive)
         => /\ members[m].status = "Inactive"
            /\ members'[m].status = "Inactive"
            /\ ~members'[m].isActive]_vars

\* an update or a renewal was attempted on a disabled member
DisabledMemberRefused ==
  /\ last.op \in {"updateMember", "renewMembership"}
  /\ last.error = "Member not found"
  /\ \E m \in MemberIds :
       members[m].exists /\ ~members[m].isActive
         /\ members[m].status = "Inactive"

-----------------------------------------------------------------------------
(* Read claims.                                                            *)

ReadOps ==
  {"getMemberById", "getMemberQRCode", "getAllMembers", "searchMembers",
   "getZoneMembers", "getMyProfile"}

\* C9: a disabled member stays in the store with isActive = false, and no
\* read operation, GET /members/me included, returns it.
DisabledMemberInvisible ==
  /\ \A m \in MemberIds : members[m].exists
  /\ (last.op \in ReadOps /\ last.ok)
       => \A m \in last.data.members : members[m].isActive

-----------------------------------------------------------------------------
(* Zone claims.                                                            *)

\* C7: deleteZone on an active zone fails, leaving the zone active, exactly
\* when an active member references the zone; otherwise (disabled members
\* do not count) it sets isActive to false and keeps the zone record.
DeleteZoneGuardedByActiveMembers ==
  [][\A z \in ZoneIds :
       (deleteZone(ObjectIdToString(z)) /\ zones[z].exists /\ zones[z].isActive)
         => LET referenced ==
                  \E m \in MemberIds :
                    members[m].exists /\ members[m].isActive
                      /\ members[m].zone = z
            IN  IF referenced
                THEN ~last'.ok /\ zones' = zones
                ELSE /\ last'.ok
                     /\ zones' = [zones EXCEPT ![z].isActive = FALSE]
                     /\ zones'[z].exists]_vars

\* a zone was deleted although a disabled member still references it
ZoneDeletedWithDisabledMember ==
  /\ last.op = "deleteZone" /\ last.ok
  /\ zones[last.data.zone].exists /\ ~zones[last.data.zone].isActive
  /\ \E m \in MemberIds :
       members[m].exists /\ ~members[m].isActive
         /\ members[m].zone = last.data.zone

\* C8: no two active zones have names that are equal ignoring letter case.
ActiveZoneNamesDistinct ==
  \A z1, z2 \in ZoneIds :
    (z1 # z2 /\ zones[z1].exists /\ zones[z2].exists
       /\ zones[z1].isActive /\ zones[z2].isActive)
      => zones[z1].name.key # zones[z2].name.key

-----------------------------------------------------------------------------
(* Member creation claims.                                                 *)

OneMemberPerUser ==
  \A m1, m2 \in MemberIds :
    (m1 # m2 /\ members[m1].exists /\ members[m2].exists)
      => members[m1].user # members[m2].user

\* C6: at most one Member references a given User, also when createMember
\* requests for the same user run concurrently; createMember for a user who
\* has a profile fails with 'Member profile already exists for this user',
\* and for a user whose role is not Member it fails, both adding no member.
CreateMemberOncePerUser ==
  /\ []OneMemberPerUser
  /\ [][\A r \in ReqSlots :
          /\ (createMemberFindMember(r)
                /\ \E m \in MemberIds :
                     members[m].exists /\ members[m].user = reqs[r].userId)
               => /\ last' = Response("createMember", FALSE,
                      "Member profile already exists for this user", NoData)
                  /\ reqs'[r] = IdleReq
                  /\ members' = members
          /\ \A memberData \in CreateMemberBodies :
               (createMemberFindUser(r, memberData)
                  /\ CastObjectId(memberData.userId) \in UserIds
                  /\ users[CastObjectId(memberData.userId)].role # "Member")
                 => /\ ~last'.ok /\ last'.op = "createMember"
                    /\ reqs'[r] = IdleReq
                    /\ members' = members]_vars

\* a second insert for the same user was turned down by the unique index
ConcurrentCreateRejected ==
  /\ last.op = "createMember"
  /\ last.error = "user already exists"
  /\ \E m \in MemberIds : members[m].exists

-----------------------------------------------------------------------------
(* Authentication and error-mapping claims.                                *)

\* C11: a login with an e-mail of no user and a login with a user's e-mail
\* and a wrong password get the same response, the generic
\* invalid-credentials message with status 401.
LoginFailureIsGeneric401 ==
  (/\ last.op = "login"
   /\ \/ UsersByEmail(last.data.email) = {}
      \/ \E u \in UsersByEmail(last.data.email) :
           ~comparePassword(users[u], last.data.password))
    => /\ last.data.status = UNAUTHORIZED
       /\ last.error = "Invalid credentials"

NotFoundMessages ==
  {"Member not found", "Event not found", "Zone not found",
   "Payment not found", "Notification not found"}

\* C12: a failure because the entity referred to is missing or soft-deleted
\* ('Member not found', 'Payment not found', ...) is answered with status 404.
NotFoundAnswers404 ==
  (last.op = "request" /\ last.error \in NotFoundMessages)
    => last.data.status = NOT_FOUND

\* the roles a route allows: those of its authorize handler
RolesOfRoute(router, controller) ==
  LET routes == RoutesOf(router)
      k == CHOOSE i \in 1..Len(routes) :
             routes[i].chain[Len(routes[i].chain)].schema = controller
      chain == routes[k].chain
  IN  UNION {chain[i].roles : i \in 1..Len(chain)}

\* the place of a handler in the order authenticate, authorize, input
\* validation, controller
StageOf(kind) ==
  IF kind = "authenticate" THEN 1
  ELSE IF kind = "authorize" THEN 2
  ELSE IF kind = "controller" THEN 4
  ELSE 3

ValidToken(token) ==
  token \in UserIds /\ users[token].exists /\ users[token].isActive

\* C13: on every route the handlers run in the order authenticate,
\* authorize, input validation, controller, and the first that rejects ends
\* the request: without a valid token the response is 401 and only
\* authenticate ran; with a valid token of a role the route does not allow
\* the response is 403, only authenticate and authorize ran, and nothing is
\* written to the store.
HandlersRunInOrder ==
  [][(last'.op = "request" /\ last'.data.route # "")
       => LET d == last'.data
              token == d.request.token
          IN  /\ \A i, j \in 1..Len(d.ran) :
                   i < j => /\ StageOf(d.ran[i]) <= StageOf(d.ran[j])
                            /\ StageOf(d.ran[i]) # 4
              /\ d.ran[1] = "authenticate"
              /\ ~ValidToken(token)
                   => /\ d.status = UNAUTHORIZED
                      /\ d.ran = <<"authenticate">>
                      /\ UNCHANGED <<users, zones, members, events, payments,
                                  notifications, storage, process>>
              /\ (ValidToken(token)
                    /\ users[token].role
                         \notin RolesOfRoute(d.request.router, d.route))
                   => /\ d.status = FORBIDDEN
                      /\ d.ran = <<"authenticate", "authorize">>
                      /\ UNCHANGED <<users, zones, members, events, payments,
                                  notifications, storage, process>>
              /\ (ValidToken(token)
                    /\ users[token].role
                         \in RolesOfRoute(d.request.router, d.route))
                   => /\ Len(d.ran) > 2
                      /\ d.ran[2] = "authorize"
                      /\ d.status \notin {UNAUTHORIZED, FORBIDDEN}]_vars

\* a member's token was turned away from the renewal route
RenewalForbiddenForMember ==
  /\ last.op = "request"
  /\ last.data.route = "renewMembership"
  /\ last.data.status = FORBIDDEN
  /\ last.data.request.token = "u1"
  /\ payments # <<>>

\* C20: GET /members/expiring-soon from an authenticated administrator is
\* dispatched to MemberController.getExpiringMembers and to no other route.
ExpiringSoonReachesItsHandler ==
  (/\ last.op = "request"
   /\ last.data.request.router = "members"
   /\ last.data.request.method = "GET"
   /\ last.data.request.path = <<"expiring-soon">>
   /\ ValidToken(last.data.request.token)
   /\ users[last.data.request.token].role = "Admin")
    => /\ last.data.route = "getExpiringMembers"
       /\ last.ok

-----------------------------------------------------------------------------
(* Interleaved registration claims.                                        *)

\* C14: whatever the interleaving of registerMemberForEvent requests, the
\* stored attendees of an event never hold the same member twice and never
\* number more than maxAttendees.
InterleavedRegistrationSafe ==
  \A e \in EventIds :
    LET a == events[e].attendees
    IN  /\ \A i, j \in DOMAIN a : a[i].member = a[j].member => i = j
        /\ events[e].maxAttendees # NoCap => Len(a) <= events[e].maxAttendees

\* C16: a rejected registerMemberForEvent reports the first condition that
\* holds, in the order event missing or inactive, member missing or
\* inactive, event not upcoming, member already registered, event at
\* maximum capacity, and leaves the event as it was.
RegistrationErrorsInOrder ==
  [][\A eventId \in CanonIdsOf(EventIds), memberId \in ReqIdsOf(MemberIds) :
       registerMemberForEvent(eventId, memberId) =>
         LET event == FindById(events, NoEvent, eventId)
             member == FindById(members, NoMember, memberId)
             eventMissing == ~event.exists \/ ~event.isActive
             memberMissing == ~member.exists \/ ~member.isActive
             notUpcoming == event.status # "Upcoming"
             registered == \E i \in DOMAIN event.attendees :
                              event.attendees[i].member = CastObjectId(memberId)
             full == /\ event.maxAttendees # NoCap
                     /\ Len(event.attendees) >= event.maxAttendees
             expected ==
               IF eventMissing THEN "Event not found"
               ELSE IF memberMissing THEN "Member not found"
               ELSE IF notUpcoming THEN "Event is not accepting registrations"
               ELSE IF registered
                 THEN "Member is already registered for this event"
               ELSE IF full THEN "Event is at maximum capacity"
               ELSE ""
         IN  ~last'.ok => /\ last'.error = expected
                          /\ events' = events]_vars

-----------------------------------------------------------------------------
(* Claims on the two writes of a renewal.                                  *)

\* a renewal payment recorded for the member
RenewalPaymentOf(m) ==
  \E i \in DOMAIN payments :
    /\ payments[i].member = m
    /\ payments[i].paymentType = "Membership Fee"
    /\ payments[i].status = "Completed"

\* the member's renewal date is past the one it was enrolled with
Advanced(m) == members[m].renewalDate # Day0 + 30

\* C15, as stated: the two writes are not ordered, so that a stop between
\* them can also leave the advanced date without its payment: a renewal
\* whose payment is not saved yet can take the step that advances the date.
MemberWriteMayComeFirst ==
  \A r \in ReqSlots :
    reqs[r].pc = "savePayment" => ENABLED renewSaveMember(r)

\* C15, amended: the payment is written first, so whatever the interleaving
\* and wherever the process stops, an advanced renewal date has its renewal
\* payment in the store (the converse fails: see the witness).
AdvancedDateHasPayment ==
  \A m \in MemberIds : Advanced(m) => RenewalPaymentOf(m)

\* the process stopped between the two writes of a renewal: the payment is
\* stored and the member's date is not advanced
StoppedWithPaymentOnly ==
  /\ last.op = "stop"
  /\ "saveMember" \in last.data.pending
  /\ RenewalPaymentOf("m1")
  /\ ~Advanced("m1")

-----------------------------------------------------------------------------
(* Identifier claims.                                                      *)

\* C18: in every reachable state no two members share a memberId and no two
\* payments share a paymentId, however createMember, createPayment and
\* renewMembership interleave and whatever the generators return.
IdentifiersUnique ==
  /\ \A m, n \in MemberIds :
       (members[m].exists /\ members[n].exists
          /\ members[m].memberId = members[n].memberId) => m = n
  /\ \A i, j \in DOMAIN payments :
       payments[i].paymentId = payments[j].paymentId => i = j

\* two requests were handed the same payment identifier at once, and the
\* second save was refused
PaymentIdCollisionRefused ==
  /\ last.error = "paymentId already exists"
  /\ payments # <<>>

-----------------------------------------------------------------------------
(* Notification claims.                                                    *)

\* C17: createNotification with a non-empty targetMembers list succeeds
\* exactly when every id in the list is that of an existing active member;
\* otherwise it fails with 'One or more target members not found' and stores
\* nothing; with an empty list it always stores the notification.
TargetsDecideNotification ==
  [][\A notificationData \in NotificationBodies, by \in Admins :
       createNotification(notificationData, by) =>
         LET targets == notificationData.targetMembers
             allActive ==
               \A i \in DOMAIN targets :
                 LET member == FindById(members, NoMember, targets[i])
                 IN  member.exists /\ member.isActive
         IN  /\ last'.ok <=> allActive
             /\ last'.ok =>
                  /\ Len(notifications') = Len(notifications) + 1
                  /\ Len(notifications'[Len(notifications')].targetMembers)
                       = Len(targets)
             /\ ~last'.ok =>
                  /\ last'.error = "One or more target members not found"
                  /\ notifications' = notifications]_vars

-----------------------------------------------------------------------------
(* Listing claims.                                                         *)

\* the number a page or limit of the query denotes (the default when absent)
Denoted(s, default) == IF s = Absent THEN default ELSE ToNumber(s)

\* C19: a listing of total matching items with page p >= 1 and limit l in
\* 1..100 returns min(l, max(0, total - (p-1)*l)) items with currentPage = p,
\* totalPages = ceil(total / l), hasNext = (p*l < total), hasPrev = (p > 1),
\* and hasNext exactly when p < totalPages.
PaginationAsSpecified ==
  last.op = "getAllEvents" =>
    LET p == Denoted(last.data.filters.page, 1)
        l == Denoted(last.data.filters.limit, 10)
        total == Cardinality({e \in DOMAIN events : events[e].isActive})
        rest == IF total - (p - 1) * l < 0 THEN 0 ELSE total - (p - 1) * l
        pagination == last.data.pagination
    IN  /\ Len(last.data.events) = IF l < rest THEN l ELSE rest
        /\ pagination.currentPage = p
        /\ pagination.totalPages * l >= total
        /\ (pagination.totalPages - 1) * l < total
        /\ pagination.totalEvents = total
        /\ pagination.hasNext <=> p * l < total
        /\ pagination.hasPrev <=> p > 1
        /\ pagination.hasNext <=> p < pagination.totalPages

-----------------------------------------------------------------------------
(* Claims on path parameters and on receipt uploads.                        *)

\* the id parameter of the answered request, "" when its route has none
ParamOfLast ==
  LET req == last.data.request
      routes == RoutesOf(req.router)
      k == Dispatch(routes, req)
  IN  IF k = 0 THEN "" ELSE ParamOf(routes[k], req)

\* C21: a request that passes authenticate and authorize on a route with an
\* id path parameter, and whose id is not a 24-hex ObjectId string, is
\* answered 400 by the parameter validation and its controller does not run.
MalformedIdAnswered400 ==
  (/\ last.op = "request"
   /\ ParamOfLast # ""
   /\ ParamOfLast \notin ObjectIdStrings
   /\ last.data.status \notin {UNAUTHORIZED, FORBIDDEN})
    => /\ last.data.status = BAD_REQUEST
       /\ last.data.ran[Len(last.data.ran)] # "controller"

\* C27: a receipt upload for a payment that is missing or soft-deleted puts
\* no object into storage and changes no payment.
ReceiptStoredOnlyForActivePayment ==
  [][\A req \in HttpRequests, firebase \in BOOLEAN :
       (/\ request(req, "PAY1", firebase)
        /\ req.method = "POST"
        /\ req.path[Len(req.path)] = "receipt"
        /\ ~PaymentExists(req.path[1]))
         => (storage' = storage /\ payments' = payments)]_vars

-----------------------------------------------------------------------------
(* Claims on who gets past authenticate and authorize.                      *)

\* C28: the token that a successful registration hands to its client does
\* not pass authorize('Admin').
SelfRegisteredIsNoAdmin ==
  (last.op = "register" /\ last.ok)
    => ~(/\ authenticate([token |-> last.data.user]).pass
         /\ authorize({"Admin"}, last.data.user).pass)

\* the accounts whose isActive flag is false
Deactivated == {u \in UserIds : users[u].exists /\ ~users[u].isActive}

\* C29: a request to a protected route with the valid token of a
\* deactivated user ends at authenticate with 401 and reaches no
\* controller, and a login for a deactivated user fails with 'Account is
\* deactivated' whatever the password, so that no token is issued.
DeactivatedUserShutOut ==
  /\ [](\A req \in HttpRequests :
          LET routes == RoutesOf(req.router)
              k == Dispatch(routes, req)
              run == RunChain(routes[k], 1, req, "", <<>>)
          IN  (req.token \in Deactivated /\ k # 0)
                => /\ run.rejected
                   /\ run.status = UNAUTHORIZED
                   /\ run.message = "Account is deactivated."
                   /\ run.ran = <<"authenticate">>)
  /\ [][\A email \in Emails, password \in Passwords :
          (login(email, password) /\ UsersByEmail(email) \cap Deactivated # {})
            => /\ ~last'.ok
               /\ last'.error = "Account is deactivated"
               /\ users' = users]_vars

\* a login for the deactivated account, with its right password, was refused
DeactivatedLoginRefused ==
  /\ last.op = "login"
  /\ last.error = "Account is deactivated"
  /\ "u2" \in Deactivated
  /\ comparePassword(users["u2"], last.data.password)
  /\ \E req \in HttpRequests : req.token = "u2" /\ ~authenticate(req).pass

-----------------------------------------------------------------------------
(* Claims on attendance.                                                    *)

\* C22: recordAttendance(e, m, s) on an active event, for a member that is
\* in the attendees, succeeds and sets the attendanceStatus of one entry of
\* that member to s, every other field and entry and the order staying as
\* they were; for a member that is not in the attendees it fails with
\* 'Member is not registered for this event' and changes no event.
AttendanceChangesOneEntry ==
  [][\A e \in CanonIdsOf(EventIds), m \in ReqIdsOf(MemberIds),
        s \in AttendanceStatuses :
       LET event == FindById(events, NoEvent, e)
           at == {i \in DOMAIN event.attendees :
                    event.attendees[i].member = CastObjectId(m)}
       IN  (recordAttendance(e, m, s) /\ event.exists /\ event.isActive)
             => IF at # {}
                THEN /\ last'.ok
                     /\ \E i \in at :
                          events' = [events EXCEPT
                            ![CastObjectId(e)].attendees[i].attendanceStatus = s]
                ELSE /\ ~last'.ok
                     /\ last'.error = "Member is not registered for this event"
                     /\ events' = events]_vars

-----------------------------------------------------------------------------
(* Claims on interleaved renewals.                                          *)

\* the months of the renewals whose payments are stored
RECURSIVE MonthsRenewed(_)
MonthsRenewed(stored) ==
  IF stored = <<>> THEN 0
  ELSE stored[1].description + MonthsRenewed(Tail(stored))

\* C24: once every renewMembership call has returned, each successful one
\* having stored its payment, the member's renewalDate is the original date
\* advanced by the sum of the periods of those calls.
RenewalsAddUp ==
  (\A r \in ReqSlots : reqs[r].pc = "idle")
    => members["m1"].renewalDate =
         NewRenewalDate(Day0 + 30, MonthsRenewed(payments))

-----------------------------------------------------------------------------
(* Claims on the two saves of createMember.                                 *)

\* C26: when a createMember request ends in failure, the store holds no
\* member that this request added; when it ends in success, the member it
\* added is stored with its QR code.
CreateMemberAllOrNothing ==
  [][\A r \in ReqSlots :
       (reqs[r].pc # "idle" /\ reqs'[r].pc = "idle" /\ last'.op = "createMember")
         => IF last'.ok
            THEN /\ members'[last'.data.member].exists
                 /\ members'[last'.data.member].qrCode
            ELSE \/ reqs[r].doc \notin MemberIds
                 \/ ~members'[reqs[r].doc].exists]_vars

-----------------------------------------------------------------------------
(* Claims on the names of deleted zones.                                    *)

\* C30: createZone succeeds whenever no active zone has the requested name,
\* letter case ignored.
CreateZoneNeedsOnlyActiveNamesFree ==
  [][\A name \in RawZoneNames :
       (/\ createZone([name |-> name])
        /\ \A z \in ZoneIds :
             (zones[z].exists /\ zones[z].isActive)
               => zones[z].name.key # name.key)
         => last'.ok]_vars

-----------------------------------------------------------------------------
(* Claims on members and the zones they point to.                           *)

\* C25: every active member references an active zone.
ActiveMembersInActiveZones ==
  \A m \in MemberIds :
    (members[m].exists /\ members[m].isActive)
      => /\ members[m].zone \in ZoneIds
         /\ zones[members[m].zone].exists
         /\ zones[members[m].zone].isActive

-----------------------------------------------------------------------------
(* Claims on the exit of the process.                                       *)

\* C23: once a fault has been logged, the process eventually exits with
\* code 1.
FaultLeadsToExit ==
  (process.logged > 0) ~> (process.exited /\ process.code = 1)

====
